---- MODULE Spec2Model ----
(***************************************************************************)
(* Action dispatch and target resolution of the outbound message runner:   *)
(* the directory cache (directory-cache.ts), the target resolver           *)
(* (target-resolver.ts) and the message action runner with its broadcast   *)
(* coordinator (message-action-runner.ts).                                 *)
(*                                                                         *)
(* JavaScript strings are TLC strings; Len, SubSeq and \o act on them.     *)
(* The value `undefined`/`null` of an optional string is Undefined.        *)
(***************************************************************************)
EXTENDS Integers, Sequences, FiniteSets, TLC

VARIABLES
    cache,          \* DirectoryCache.cache: Map<string, CacheEntry>, a function on the keys present
    lastConfigRef,  \* DirectoryCache.lastConfigRef
    now,            \* Date.now(), in milliseconds
    ticks,          \* number of clock advances so far
    calls,          \* number of calls made so far (on the cache API, or on the resolver)
    lastOp,         \* the most recent call on the cache and what it observed and returned
    directory,      \* what the directory collaborators list, per configuration and kind
    dirFilters,     \* whether the directory collaborators narrow their listing to the query
    tasks,          \* the calls of resolveMessagingTarget / lookupDirectoryDisplay, by slot
    request,        \* the input of the run of runMessageAction, NoInput before it starts
    stack,          \* the calls of runMessageAction that are waiting, the innermost last
    outcome,        \* what the run returned or threw
    attempts,       \* the pairs the broadcast has tried, with what became of each
    events,         \* the calls the run has made on its collaborators, in order
    callerParams    \* the keys and values of the object the caller passed as params

resolverVars == <<directory, dirFilters, tasks>>
runVars == <<request, stack, outcome, attempts, events, callerParams>>
vars == <<cache, lastConfigRef, now, ticks, calls, lastOp, directory, dirFilters, tasks,
          request, stack, outcome, attempts, events, callerParams>>

----------------------------------------------------------------------------
(* Bounds of the model *)

\* how many times the clock advances in one behaviour
MaxTicks == 1

\* how many direct calls on the cache API one behaviour of SpecCache makes
MaxCalls == 3

\* how many calls of the resolver, one after the other, one behaviour makes
MaxResolves == 2

\* how many of the most recent resolver calls the model keeps
NumTasks == 2

\* how many resolver calls, and how many advances of the clock, one behaviour of SpecReads
\* makes
MaxReads == 3
MaxElapses == 2

----------------------------------------------------------------------------
(* Strings *)

Undefined == "<undefined>"

Char(s, i) == SubSeq(s, i, i)

startsWith(s, p) == Len(s) >= Len(p) /\ SubSeq(s, 1, Len(p)) = p

endsWith(s, p) == Len(s) >= Len(p) /\ SubSeq(s, Len(s) - Len(p) + 1, Len(s)) = p

slice(s, n) == SubSeq(s, n + 1, Len(s))

includes(s, q) == \E i \in 0..(Len(s) - Len(q)) : SubSeq(s, i + 1, i + Len(q)) = q

RECURSIVE trimStart(_)
trimStart(s) == IF Len(s) > 0 /\ Char(s, 1) = " " THEN trimStart(slice(s, 1)) ELSE s

RECURSIVE trimEnd(_)
trimEnd(s) ==
    IF Len(s) > 0 /\ Char(s, Len(s)) = " " THEN trimEnd(SubSeq(s, 1, Len(s) - 1)) ELSE s

trim(s) == trimEnd(trimStart(s))

UpperCaseLetters == "ABCDEFGHIJKLMNOPQRSTUVWXYZ"
LowerCaseLetters == "abcdefghijklmnopqrstuvwxyz"

DigitChars == {"0", "1", "2", "3", "4", "5", "6", "7", "8", "9"}
UpperChars == {Char(UpperCaseLetters, i) : i \in 1..Len(UpperCaseLetters)}
LowerChars == {Char(LowerCaseLetters, i) : i \in 1..Len(LowerCaseLetters)}

LowerOf ==
    [c \in UpperChars |->
        Char(LowerCaseLetters, CHOOSE i \in 1..Len(UpperCaseLetters) : Char(UpperCaseLetters, i) = c)]

lowerChar(c) == IF c \in UpperChars THEN LowerOf[c] ELSE c

RECURSIVE toLowerCase(_)
toLowerCase(s) ==
    IF Len(s) = 0 THEN s ELSE lowerChar(Char(s, 1)) \o toLowerCase(slice(s, 1))

\* a pattern of the form /^[class]+$/: every character of s is of the class
allChars(s, class) == \A i \in 1..Len(s) : Char(s, i) \in class

----------------------------------------------------------------------------
(* directory-cache.ts *)

CACHE_TTL_MS == 30 * 60 * 1000

NullRef == "<null>"

EmptyCache == [k \in {} |-> [value |-> <<>>, fetchedAt |-> 0]]

cacheDelete(c, key) == [k \in (DOMAIN c) \ {key} |-> c[k]]

cachePut(c, key, entry) == [k \in (DOMAIN c) \cup {key} |-> IF k = key THEN entry ELSE c[k]]

\* `${key.channel}:${key.accountId ?? "default"}:${key.kind}:${key.source}`
buildDirectoryCacheKey(channel, accountId, kind, source) ==
    channel \o ":" \o (IF accountId \in {Undefined, NullRef} THEN "default" ELSE accountId)
            \o ":" \o kind \o ":" \o source

\* resetIfConfigChanged that keeps the entries of the earlier configuration
resetIfConfigChangedKeeps(c, ref, cfg) == c

\* the map after resetIfConfigChanged(cfg); lastConfigRef becomes cfg in every case
resetIfConfigChanged(c, ref, cfg) ==
    IF ref # NullRef /\ ref # cfg THEN EmptyCache ELSE c

\* an expiry test that already fails at the time to live itself
isExpiredAtTtl(entry, t) == t - entry.fetchedAt >= CACHE_TTL_MS

isExpired(entry, t) == t - entry.fetchedAt > CACHE_TTL_MS

\* a get that counts the lifetime of the entry it finds from this read
cacheGetRefreshes(c, ref, key, cfg, t) ==
    LET c1 == resetIfConfigChanged(c, ref, cfg) IN
    IF key \notin DOMAIN c1
    THEN [cache |-> c1, found |-> FALSE, value |-> <<>>]
    ELSE IF isExpired(c1[key], t)
         THEN [cache |-> cacheDelete(c1, key), found |-> FALSE, value |-> <<>>]
         ELSE [cache |-> cachePut(c1, key, [c1[key] EXCEPT !.fetchedAt = t]),
               found |-> TRUE, value |-> c1[key].value]

\* DirectoryCache.get: the map it leaves and the value it returns
cacheGet(c, ref, key, cfg, t) ==
    LET c1 == resetIfConfigChanged(c, ref, cfg) IN
    IF key \notin DOMAIN c1
    THEN [cache |-> c1, found |-> FALSE, value |-> <<>>]
    ELSE IF isExpired(c1[key], t)
         THEN [cache |-> cacheDelete(c1, key), found |-> FALSE, value |-> <<>>]
         ELSE [cache |-> c1, found |-> TRUE, value |-> c1[key].value]

\* a set that stores its entry next to those of the earlier configuration
cacheSetKeepsOthers(c, ref, key, value, cfg, t) ==
    cachePut(c, key, [value |-> value, fetchedAt |-> t])

\* DirectoryCache.set: the map it leaves
cacheSet(c, ref, key, value, cfg, t) ==
    cachePut(resetIfConfigChanged(c, ref, cfg), key, [value |-> value, fetchedAt |-> t])

\* DirectoryCache.clearMatching, matching being the keys of the map that `match` accepts
clearMatching(c, matching) == [k \in (DOMAIN c) \ matching |-> c[k]]

----------------------------------------------------------------------------
(* target-resolver.ts: invalidation and the pure helpers *)

\* resetDirectoryCache that drops the keys of the cache source only
resetDirectoryCacheCacheSourceOnly(c, channel, accountId) ==
    IF channel = Undefined \/ channel = ""
    THEN EmptyCache
    ELSE LET accountKey == IF accountId = Undefined THEN "default" ELSE accountId
         IN clearMatching(c, {key \in DOMAIN c :
                /\ endsWith(key, ":cache")
                /\ startsWith(key, channel \o ":")
                /\ (accountId = Undefined \/ accountId = ""
                      \/ startsWith(key, channel \o ":" \o accountKey \o ":"))})

\* resetDirectoryCache(params): the map it leaves (lastConfigRef is not touched)
resetDirectoryCache(c, channel, accountId) ==
    IF channel = Undefined \/ channel = ""
    THEN EmptyCache
    ELSE LET channelKey == channel
             accountKey == IF accountId = Undefined THEN "default" ELSE accountId
         IN clearMatching(c, {key \in DOMAIN c :
                IF ~startsWith(key, channelKey \o ":") THEN FALSE
                ELSE IF accountId = Undefined \/ accountId = "" THEN TRUE
                ELSE startsWith(key, channelKey \o ":" \o accountKey \o ":")})

normalizeQuery(value) == toLowerCase(trim(value))

\* a ?? b
nullish(a, b) == IF a # Undefined THEN a ELSE b

\* value.replace(/^(channel|group|user):/i, ""), lower being value in lower case
stripKindPrefix(value, lower) ==
    IF startsWith(lower, "channel:") THEN slice(value, 8)
    ELSE IF startsWith(lower, "group:") THEN slice(value, 6)
    ELSE IF startsWith(lower, "user:") THEN slice(value, 5)
    ELSE value

\* value.replace(/^[@#]/, "")
stripSigil(value) ==
    IF startsWith(value, "@") \/ startsWith(value, "#") THEN slice(value, 1) ELSE value

\* value.replace(/^(channel|group|user):/i, "").replace(/^[@#]/, "").trim()
stripTargetPrefixes(value) == trim(stripSigil(stripKindPrefix(value, toLowerCase(value))))

preserveTargetCase(channel, raw, normalized) ==
    IF channel # "slack" THEN normalized
    ELSE LET trimmed == trim(raw) IN
         IF startsWith(toLowerCase(trimmed), "channel:") \/ startsWith(toLowerCase(trimmed), "user:")
         THEN trimmed
         ELSE IF startsWith(trimmed, "#") THEN "channel:" \o trim(slice(trimmed, 1))
         ELSE IF startsWith(trimmed, "@") THEN "user:" \o trim(slice(trimmed, 1))
         ELSE trimmed

\* /^<@!?/ matches exactly the strings that start with "<@"
detectTargetKind(raw, preferred) ==
    IF preferred # Undefined THEN preferred
    ELSE LET trimmed == trim(raw) IN
         IF trimmed = "" THEN "group"
         ELSE IF \/ startsWith(trimmed, "@")
                 \/ startsWith(trimmed, "<@")
                 \/ startsWith(toLowerCase(trimmed), "user:")
              THEN "user"
         ELSE IF \/ startsWith(trimmed, "#")
                 \/ startsWith(toLowerCase(trimmed), "channel:")
                 \/ startsWith(toLowerCase(trimmed), "group:")
              THEN "group"
         ELSE "group"

\* channel-target.ts, normalizeChannelTargetInput: whitespace normalisation of the raw input
normalizeChannelTargetInput(input) == trim(input)

\* pi-embedded-messaging.ts, normalizeTargetForProvider: the platform's syntax
\* normalisation, Undefined where the platform has none. Slack and Discord write a
\* target as "<kind>:<id>" in lower case, "#x" and a bare x being channels, "@x" a user.
normalizeTrimmedTarget(channel, t, lower) ==
    IF t = "" THEN Undefined
    ELSE IF channel \notin {"slack", "discord"} THEN Undefined
    ELSE IF startsWith(lower, "channel:") \/ startsWith(lower, "user:") THEN lower
    ELSE IF startsWith(t, "#") THEN "channel:" \o trim(slice(lower, 1))
    ELSE IF startsWith(t, "@") THEN "user:" \o trim(slice(lower, 1))
    ELSE "channel:" \o lower

normalizeTargetForProvider(channel, raw) ==
    normalizeTrimmedTarget(channel, trim(raw), toLowerCase(trim(raw)))

\* normalizeTargetForProvider(channel, entry.id) ?? entry.id.trim()
normalizeDirectoryEntryId(channel, entry) ==
    nullish(normalizeTargetForProvider(channel, entry.id), trim(entry.id))

\* [id, name, handle].filter(Boolean).some((value) => value === query || value.includes(query))
someCandidateMatches(query, id, name, handle) ==
    /\ query # ""
    /\ \E value \in {id, name, handle} : value # "" /\ (value = query \/ includes(value, query))

\* entry.name / entry.handle of matchesDirectoryEntry: stripped when there is one, else ""
strippedOrEmpty(field) ==
    IF field # Undefined /\ field # "" THEN stripTargetPrefixes(field) ELSE ""

matchesDirectoryEntry(channel, entry, queryArg) ==
    someCandidateMatches(normalizeQuery(queryArg),
                         normalizeQuery(stripTargetPrefixes(normalizeDirectoryEntryId(channel, entry))),
                         normalizeQuery(strippedOrEmpty(entry.name)),
                         normalizeQuery(strippedOrEmpty(entry.handle)))

NoEntry == [id |-> Undefined, name |-> Undefined, handle |-> Undefined, kind |-> "group"]

\* the entries that match the query, in the order of the listing
matchingOf(channel, entries, query) ==
    SelectSeq(entries, LAMBDA entry : matchesDirectoryEntry(channel, entry, query))

exactlyNamed(matches, query) ==
    SelectSeq(matches, LAMBDA entry :
        entry.name # Undefined /\ normalizeQuery(entry.name) = normalizeQuery(query))

\* a match that settles an ambiguity in favour of an entry named exactly like the query
matchOfPrefersExact(matches, exact) ==
    IF Len(matches) = 0 THEN [kind |-> "none", entry |-> NoEntry, entries |-> <<>>]
    ELSE IF Len(matches) = 1 THEN [kind |-> "single", entry |-> matches[1], entries |-> <<>>]
    ELSE IF Len(exact) > 0 THEN [kind |-> "single", entry |-> exact[1], entries |-> <<>>]
    ELSE [kind |-> "ambiguous", entry |-> NoEntry, entries |-> matches]

resolveMatchPrefersExact(channel, entries, query) ==
    matchOfPrefersExact(matchingOf(channel, entries, query),
                        exactlyNamed(matchingOf(channel, entries, query), query))

\* resolveMatch from `if (matches.length === 0)` on
matchOf(matches) ==
    IF Len(matches) = 0 THEN [kind |-> "none", entry |-> NoEntry, entries |-> <<>>]
    ELSE IF Len(matches) = 1 THEN [kind |-> "single", entry |-> matches[1], entries |-> <<>>]
    ELSE [kind |-> "ambiguous", entry |-> NoEntry, entries |-> matches]

resolveMatch(channel, entries, query) == matchOf(matchingOf(channel, entries, query))

\* the least lengths the identifier patterns of looksLikeId ask for
DiscordIdMinDigits == 6
SlackIdMinChars == 8
WhatsAppMinDigits == 3

AlnumChars == DigitChars \cup UpperChars \cup LowerChars

looksLikeId(channel, normalized) ==
    IF normalized = "" THEN FALSE
    ELSE LET raw == trim(normalized)
             candidate == stripTargetPrefixes(raw)
         IN CASE channel = "discord" ->
                   Len(candidate) >= DiscordIdMinDigits /\ allChars(candidate, DigitChars)
              [] channel = "slack" ->
                   Len(candidate) >= SlackIdMinChars /\ allChars(candidate, AlnumChars)
              [] channel = "msteams" ->
                   \/ startsWith(toLowerCase(raw), "conversation:")
                   \/ startsWith(toLowerCase(raw), "user:")
                   \/ includes(raw, "@thread")
              [] channel = "telegram" ->
                   startsWith(toLowerCase(raw), "telegram:") \/ startsWith(raw, "@")
              [] channel = "whatsapp" ->
                   \/ includes(candidate, "@")
                   \/ LET d == IF startsWith(candidate, "+") THEN slice(candidate, 1) ELSE candidate
                      IN Len(d) >= WhatsAppMinDigits /\ allChars(d, DigitChars)
                   \/ endsWith(toLowerCase(candidate), "@g.us")
              [] OTHER -> raw # ""

----------------------------------------------------------------------------
(* The inputs of the model *)

Configs == {"cfgA", "cfgB"}

CacheChannels == {"discord", "slack"}
AccountIds == {Undefined, "work"}
ResetAccountIds == {Undefined, "", "work"}
DirectoryKinds == {"user", "group"}
Sources == {"cache", "live"}

\* the keys the direct calls use: every key of discord, the key of an empty and of a null
\* account id and of an account id with a colon in it, and two keys of slack
CacheKeys ==
    {buildDirectoryCacheKey("discord", a, k, s) :
        a \in AccountIds, k \in DirectoryKinds, s \in Sources}
    \cup {buildDirectoryCacheKey("discord", "", "group", "cache"),
          buildDirectoryCacheKey("discord", NullRef, "group", "cache"),
          buildDirectoryCacheKey("discord", "work:eu", "group", "cache"),
          buildDirectoryCacheKey("slack", Undefined, "group", "cache"),
          buildDirectoryCacheKey("slack", "work", "group", "live")}

general == [id |-> "111111111", name |-> "general", handle |-> Undefined, kind |-> "group"]
generalDev == [id |-> "222222222", name |-> "General-Dev", handle |-> Undefined, kind |-> "group"]
opsRoom == [id |-> "ops-room", name |-> Undefined, handle |-> "#ops", kind |-> "group"]
teamRoom == [id |-> "group:Team42", name |-> Undefined, handle |-> Undefined, kind |-> "group"]
bob == [id |-> "444444444", name |-> "Bob", handle |-> "@bob", kind |-> "user"]

\* the directory snapshot a configuration's listing holds, as the cache stores it
SnapshotOf(cfg) == IF cfg = "cfgA" THEN <<general>> ELSE <<generalDev, general>>

\* the clock advances to just before, exactly at and just after the time to live
TickSteps == {29 * 60 * 1000, CACHE_TTL_MS, CACHE_TTL_MS + 1}

Tick ==
    /\ ticks < MaxTicks
    /\ \E d \in TickSteps : now' = now + d
    /\ ticks' = ticks + 1
    /\ lastOp' = [lastOp EXCEPT !.op = "tick"]
    /\ UNCHANGED <<cache, lastConfigRef, calls>>
    /\ UNCHANGED resolverVars
    /\ UNCHANGED runVars

----------------------------------------------------------------------------
(* The directory collaborators (plugin.directory of a channel) *)

\* the record of the most recent call on the cache
NoOp == [op |-> "none", key |-> Undefined, cfg |-> NullRef, found |-> FALSE, value |-> <<>>,
         pre |-> EmptyCache, preRef |-> NullRef, channel |-> Undefined, accountId |-> Undefined]


NoListing == [c \in Configs |-> [k \in DirectoryKinds |-> <<>>]]

\* both configurations list groups and users, cfgB in another order
WorldFull ==
    [snapshot |-> [c \in Configs |-> [k \in DirectoryKinds |->
                      IF k = "user" THEN <<bob>>
                      ELSE IF c = "cfgA" THEN <<general, generalDev, opsRoom>>
                      ELSE <<teamRoom, generalDev, general>>]],
     live |-> [c \in Configs |-> [k \in DirectoryKinds |->
                      IF k = "user" THEN <<bob>>
                      ELSE IF c = "cfgA" THEN <<general, generalDev, opsRoom>>
                      ELSE <<teamRoom, generalDev, general>>]]]

\* the batched snapshot of groups lags behind: it is empty, the live listing is not
WorldLagging ==
    [snapshot |-> [c \in Configs |-> [k \in DirectoryKinds |->
                      IF k = "user" THEN <<bob>> ELSE <<>>]],
     live |-> [c \in Configs |-> [k \in DirectoryKinds |->
                      IF k = "user" THEN <<bob>> ELSE <<general>>]]]

WorldEmpty == [snapshot |-> NoListing, live |-> NoListing]

Directories == {WorldFull, WorldLagging, WorldEmpty}

\* the channels whose plugin has a directory
DirectoryChannels == {"discord", "slack", "telegram", "msteams"}

\* a collaborator that honours `query` lists the entries whose id, name or handle holds it
collaboratorMatches(entry, query) ==
    \E field \in {entry.id, entry.name, entry.handle} :
        field # Undefined /\ includes(toLowerCase(field), toLowerCase(query))

\* what directory.listGroups / listPeers (or their live variants) return
listingOf(cfg, kind, query, source) ==
    LET all == IF source = "live" THEN directory.live[cfg][kind]
               ELSE directory.snapshot[cfg][kind]
    IN IF dirFilters /\ query # Undefined
       THEN SelectSeq(all, LAMBDA entry : collaboratorMatches(entry, query))
       ELSE all

----------------------------------------------------------------------------
(* target-resolver.ts: resolveMessagingTarget and lookupDirectoryDisplay *)

Tasks == 1..NumTasks

NoResult == [ok |-> FALSE, thrown |-> FALSE, to |-> Undefined, kind |-> Undefined,
             display |-> Undefined, source |-> Undefined, error |-> Undefined,
             candidates |-> <<>>]

IdleTask ==
    [pc |-> "idle", op |-> "resolve", cfg |-> NullRef, channel |-> Undefined,
     input |-> Undefined, accountId |-> Undefined, preferredKind |-> Undefined,
     raw |-> Undefined, kind |-> Undefined, dirKind |-> "group", query |-> Undefined,
     normalized |-> Undefined, preferLiveOnMiss |-> FALSE,
     idShaped |-> FALSE,      \* looksLikeId held for the normalized input
     hadEntry |-> FALSE,      \* the cache held the key (for this configuration) at the read
     age |-> 0,               \* how old that entry was at the read
     hit |-> FALSE,           \* directoryCache.get returned a value
     seq |-> 0,               \* the number of this call among the resolver calls
     startedAt |-> 0,         \* the time of the call
     endedAt |-> 0,           \* the time of its return
     cacheReads |-> 0, cacheWrites |-> 0,
     fetches |-> 0,           \* calls of the directory collaborator, cache variant
     liveFetches |-> 0,       \* calls of the directory collaborator, live variant
     entries |-> <<>>,        \* what getDirectoryEntries returned
     result |-> NoResult]

unknownTargetError(raw, channel) == "Unknown target \"" \o raw \o "\" for " \o channel \o "."

ambiguousTargetError(raw) ==
    "Ambiguous target \"" \o raw \o "\". Provide a unique name or an explicit id."

\* a display label that prefers the handle to the name
displayOfHandleFirst(entry) ==
    IF entry.handle # Undefined THEN entry.handle
    ELSE IF entry.name # Undefined THEN entry.name
    ELSE stripTargetPrefixes(entry.id)

\* entry.name ?? entry.handle ?? stripTargetPrefixes(entry.id)
displayOf(entry) ==
    IF entry.name # Undefined THEN entry.name
    ELSE IF entry.handle # Undefined THEN entry.handle
    ELSE stripTargetPrefixes(entry.id)

\* resolveMessagingTarget from `if (match.kind === "single")` on
resultOfMatch(t, match) ==
    IF match.kind = "single"
    THEN [NoResult EXCEPT !.ok = TRUE,
                          !.to = normalizeDirectoryEntryId(t.channel, match.entry),
                          !.kind = t.kind,
                          !.display = displayOf(match.entry),
                          !.source = "directory"]
    ELSE IF match.kind = "ambiguous"
    THEN [NoResult EXCEPT !.error = ambiguousTargetError(t.raw), !.candidates = match.entries]
    ELSE [NoResult EXCEPT !.error = unknownTargetError(t.raw, t.channel)]

\* resolveMessagingTarget from `const match = resolveMatch(...)` on
resolveFromEntries(t, entries) == resultOfMatch(t, resolveMatch(t.channel, entries, t.query))

\* lookupDirectoryDisplay from `return entry?.name ?? entry?.handle ?? undefined` on
displayOfFound(found) ==
    IF Len(found) = 0 THEN [NoResult EXCEPT !.ok = TRUE]
    ELSE [NoResult EXCEPT !.ok = TRUE, !.display = nullish(found[1].name, found[1].handle)]

\* lookupDirectoryDisplay from `const entry = candidates.find(...)` on
lookupFromEntries(t, entries) ==
    displayOfFound(SelectSeq(entries,
        LAMBDA c : normalizeDirectoryEntryId(t.channel, c) = t.normalized))

finishFromEntries(t, entries) ==
    [t EXCEPT !.pc = "done", !.entries = entries, !.endedAt = now,
              !.result = IF t.op = "lookup" THEN lookupFromEntries(t, entries)
                         ELSE resolveFromEntries(t, entries)]

\* getDirectoryEntries up to its first await: the cache read, and on a miss the call of
\* listDirectoryEntries for the cache source
getDirectoryEntries(p, t) ==
    LET cacheKey == buildDirectoryCacheKey(t.channel, t.accountId, t.dirKind, "cache")
        before == resetIfConfigChanged(cache, lastConfigRef, t.cfg)
        had == cacheKey \in DOMAIN before
        r == cacheGet(cache, lastConfigRef, cacheKey, t.cfg, now)
        t1 == [t EXCEPT !.cacheReads = 1, !.hit = r.found, !.hadEntry = had,
                        !.age = IF had THEN now - before[cacheKey].fetchedAt ELSE 0]
    IN /\ cache' = r.cache
       /\ lastConfigRef' = t.cfg
       /\ lastOp' = [NoOp EXCEPT !.op = "get", !.key = cacheKey, !.cfg = t.cfg,
                                  !.found = r.found, !.value = r.value,
                                  !.pre = cache, !.preRef = lastConfigRef]
       /\ tasks' = [tasks EXCEPT ![p] =
                      IF r.found THEN finishFromEntries(t1, r.value)
                      ELSE [t1 EXCEPT !.pc = "awaitCache"]]

\* resolveMessagingTarget: the locals raw, kind, normalized and query of a call
resolveTask(cfg, channel, input, accountId, preferredKind) ==
    LET raw == normalizeChannelTargetInput(input)
        kind == detectTargetKind(raw, preferredKind)
        n == normalizeTargetForProvider(channel, raw)
        normalized == IF n # Undefined THEN n ELSE raw
    IN [IdleTask EXCEPT !.op = "resolve", !.cfg = cfg, !.channel = channel,
                        !.input = input, !.accountId = accountId,
                        !.preferredKind = preferredKind, !.raw = raw, !.kind = kind,
                        !.seq = calls + 1, !.startedAt = now,
                        !.normalized = normalized,
                        !.idShaped = (raw # "" /\ looksLikeId(channel, normalized)),
                        !.dirKind = IF kind = "user" THEN "user" ELSE "group",
                        !.query = stripTargetPrefixes(raw),
                        !.preferLiveOnMiss = TRUE]

\* a return of resolveMessagingTarget before any use of the directory
returnsDirectly(p, t, result) ==
    /\ tasks' = [tasks EXCEPT ![p] = [t EXCEPT !.pc = "done", !.endedAt = now,
                                                !.result = result]]
    /\ lastOp' = NoOp
    /\ UNCHANGED <<cache, lastConfigRef>>

\* the target of the fast path of resolveMessagingTarget
directTarget(t) ==
    [NoResult EXCEPT !.ok = TRUE,
                     !.to = preserveTargetCase(t.channel, t.raw, t.normalized),
                     !.kind = t.kind,
                     !.display = stripTargetPrefixes(t.raw),
                     !.source = "normalized"]

\* resolveMessagingTarget with the identifier test left out
resolveMessagingTargetNoFastPath(p, cfg, channel, input, accountId, preferredKind) ==
    LET t == resolveTask(cfg, channel, input, accountId, preferredKind) IN
    IF t.raw = ""
    THEN returnsDirectly(p, t, [NoResult EXCEPT !.error = "Target is required"])
    ELSE getDirectoryEntries(p, t)

\* a call of resolveMessagingTarget, up to its first await or its return
resolveMessagingTarget(p, cfg, channel, input, accountId, preferredKind) ==
    LET t == resolveTask(cfg, channel, input, accountId, preferredKind) IN
    IF t.raw = ""
    THEN returnsDirectly(p, t, [NoResult EXCEPT !.error = "Target is required"])
    ELSE IF looksLikeId(channel, t.normalized)
    THEN returnsDirectly(p, t, directTarget(t))
    ELSE getDirectoryEntries(p, t)

\* lookupDirectoryDisplay that lets getDirectoryEntries go on to the live listing
lookupDirectoryDisplayLiveOnMiss(p, cfg, channel, targetId, accountId) ==
    LET n == normalizeTargetForProvider(channel, targetId)
        t == [IdleTask EXCEPT !.op = "lookup", !.cfg = cfg, !.channel = channel,
                              !.seq = calls + 1, !.startedAt = now,
                              !.input = targetId, !.accountId = accountId,
                              !.normalized = IF n # Undefined THEN n ELSE targetId,
                              !.dirKind = "group", !.query = Undefined,
                              !.preferLiveOnMiss = TRUE]
    IN getDirectoryEntries(p, t)

\* a call of lookupDirectoryDisplay, up to its first await or its return
lookupDirectoryDisplay(p, cfg, channel, targetId, accountId) ==
    LET n == normalizeTargetForProvider(channel, targetId)
        t == [IdleTask EXCEPT !.op = "lookup", !.cfg = cfg, !.channel = channel,
                              !.seq = calls + 1, !.startedAt = now,
                              !.input = targetId, !.accountId = accountId,
                              !.normalized = IF n # Undefined THEN n ELSE targetId,
                              !.dirKind = "group", !.query = Undefined,
                              !.preferLiveOnMiss = FALSE]
    IN getDirectoryEntries(p, t)

\* listDirectoryEntries: whether a collaborator function is called at all
hasDirectory(channel) == channel \in DirectoryChannels

\* getDirectoryEntries after `await listDirectoryEntries({... source: "cache"})` returned
CacheListingReturns(p) ==
    LET t == tasks[p]
        cacheKey == buildDirectoryCacheKey(t.channel, t.accountId, t.dirKind, "cache")
        entries == IF hasDirectory(t.channel)
                   THEN listingOf(t.cfg, t.dirKind, t.query, "cache") ELSE <<>>
        t1 == [t EXCEPT !.fetches = IF hasDirectory(t.channel) THEN 1 ELSE 0]
    IN /\ t.pc = "awaitCache"
       /\ IF Len(entries) > 0 \/ ~t.preferLiveOnMiss
          THEN /\ cache' = cacheSet(cache, lastConfigRef, cacheKey, entries, t.cfg, now)
               /\ lastConfigRef' = t.cfg
               /\ lastOp' = [NoOp EXCEPT !.op = "set", !.key = cacheKey, !.cfg = t.cfg,
                                          !.value = entries, !.pre = cache,
                                          !.preRef = lastConfigRef]
               /\ tasks' = [tasks EXCEPT ![p] =
                              finishFromEntries([t1 EXCEPT !.cacheWrites = 1], entries)]
          ELSE /\ tasks' = [tasks EXCEPT ![p] = [t1 EXCEPT !.pc = "awaitLive"]]
               /\ lastOp' = NoOp
               /\ UNCHANGED <<cache, lastConfigRef>>
       /\ UNCHANGED <<now, ticks, calls, directory, dirFilters>>
       /\ UNCHANGED runVars

\* getDirectoryEntries after `await listDirectoryEntries({... source: "live"})` returned
LiveListingReturns(p) ==
    LET t == tasks[p]
        liveKey == buildDirectoryCacheKey(t.channel, t.accountId, t.dirKind, "live")
        liveEntries == IF hasDirectory(t.channel)
                       THEN listingOf(t.cfg, t.dirKind, t.query, "live") ELSE <<>>
        t1 == [t EXCEPT !.liveFetches = IF hasDirectory(t.channel) THEN 1 ELSE 0,
                        !.cacheWrites = 1]
    IN /\ t.pc = "awaitLive"
       /\ cache' = cacheSet(cache, lastConfigRef, liveKey, liveEntries, t.cfg, now)
       /\ lastConfigRef' = t.cfg
       /\ lastOp' = [NoOp EXCEPT !.op = "set", !.key = liveKey, !.cfg = t.cfg,
                                  !.value = liveEntries, !.pre = cache,
                                  !.preRef = lastConfigRef]
       /\ tasks' = [tasks EXCEPT ![p] = finishFromEntries(t1, liveEntries)]
       /\ UNCHANGED <<now, ticks, calls, directory, dirFilters>>
       /\ UNCHANGED runVars

directoryError == "directory unavailable"

\* a rejection of the collaborator that leaves an empty listing under the cache key
ListingThrowsStoresEmpty(p) ==
    LET t == tasks[p]
        cacheKey == buildDirectoryCacheKey(t.channel, t.accountId, t.dirKind, "cache")
    IN /\ t.pc \in {"awaitCache", "awaitLive"}
       /\ hasDirectory(t.channel)
       /\ tasks' = [tasks EXCEPT ![p] =
                      [t EXCEPT !.pc = "done", !.endedAt = now,
                                !.fetches = IF t.pc = "awaitCache" THEN 1 ELSE t.fetches,
                                !.liveFetches = IF t.pc = "awaitLive" THEN 1 ELSE 0,
                                !.result = [NoResult EXCEPT !.thrown = TRUE,
                                                            !.error = directoryError]]]
       /\ cache' = cacheSet(cache, lastConfigRef, cacheKey, <<>>, t.cfg, now)
       /\ lastConfigRef' = t.cfg
       /\ lastOp' = NoOp
       /\ UNCHANGED <<now, ticks, calls, directory, dirFilters>>
       /\ UNCHANGED runVars

\* the awaited collaborator call rejects: the rejection passes through getDirectoryEntries
\* and resolveMessagingTarget to the caller
ListingThrows(p) ==
    LET t == tasks[p] IN
    /\ t.pc \in {"awaitCache", "awaitLive"}
    /\ hasDirectory(t.channel)
    /\ tasks' = [tasks EXCEPT ![p] =
                   [t EXCEPT !.pc = "done", !.endedAt = now,
                             !.fetches = IF t.pc = "awaitCache" THEN 1 ELSE t.fetches,
                             !.liveFetches = IF t.pc = "awaitLive" THEN 1 ELSE 0,
                             !.result = [NoResult EXCEPT !.thrown = TRUE,
                                                         !.error = directoryError]]]
    /\ lastOp' = NoOp
    /\ UNCHANGED <<cache, lastConfigRef, now, ticks, calls, directory, dirFilters>>
    /\ UNCHANGED runVars

----------------------------------------------------------------------------
(* message-action-runner.ts: runMessageAction, handleBroadcastAction, handleSendAction *)

\* values that are not strings: booleans and a parsed JSON value other than a string
JsTrue == "<true>"
JsFalse == "<false>"
JsonValue == "<json>"

isString(v) == v \notin {Undefined, JsTrue, JsFalse, JsonValue}

\* JSON.parse on the texts the model uses: a quoted text is a string, an array an array
jsonParse(text) ==
    IF text = "[[]]" THEN [ok |-> TRUE, value |-> JsonValue]
    ELSE IF Len(text) >= 2 /\ Char(text, 1) = "\"" /\ Char(text, Len(text)) = "\""
    THEN [ok |-> TRUE, value |-> SubSeq(text, 2, Len(text) - 1)]
    ELSE [ok |-> FALSE, value |-> Undefined]


\* parseButtonsParam that leaves a malformed text in place
parseButtonsParamLenient(params) ==
    LET raw == params.buttons IN
    IF ~isString(raw) THEN [thrown |-> FALSE, error |-> Undefined, params |-> params]
    ELSE IF trim(raw) = ""
    THEN [thrown |-> FALSE, error |-> Undefined, params |-> [params EXCEPT !.buttons = Undefined]]
    ELSE LET parsed == jsonParse(trim(raw)) IN
         [thrown |-> FALSE, error |-> Undefined,
          params |-> IF parsed.ok THEN [params EXCEPT !.buttons = parsed.value] ELSE params]

parseButtonsParam(params) ==
    LET raw == params.buttons IN
    IF ~isString(raw) THEN [thrown |-> FALSE, error |-> Undefined, params |-> params]
    ELSE IF trim(raw) = ""
    THEN [thrown |-> FALSE, error |-> Undefined, params |-> [params EXCEPT !.buttons = Undefined]]
    ELSE LET parsed == jsonParse(trim(raw)) IN
         IF parsed.ok
         THEN [thrown |-> FALSE, error |-> Undefined,
               params |-> [params EXCEPT !.buttons = parsed.value]]
         ELSE [thrown |-> TRUE, error |-> "--buttons must be valid JSON", params |-> params]

readBooleanParam(raw) ==
    IF raw \in {JsTrue, JsFalse} THEN raw
    ELSE IF isString(raw) /\ toLowerCase(trim(raw)) = "true" THEN JsTrue
    ELSE IF isString(raw) /\ toLowerCase(trim(raw)) = "false" THEN JsFalse
    ELSE Undefined

\* agents/tools/common.ts, readStringParam: the trimmed text, absent when not a text or empty
readStringParam(raw) ==
    IF isString(raw) /\ trim(raw) # "" THEN trim(raw) ELSE Undefined

\* agents/tools/common.ts, readStringArrayParam with required: a missing list is an error
readStringArrayParam(raw, label) ==
    IF ~raw.given
    THEN [thrown |-> TRUE, error |-> label \o " required", value |-> <<>>]
    ELSE [thrown |-> FALSE, error |-> Undefined, value |-> raw.values]

\* the entries of MESSAGE_ACTION_TARGET_MODE in the order they are written
TargetModeEntries ==
    << <<"send", "to">>, <<"broadcast", "none">>, <<"poll", "to">>, <<"react", "to">>,
       <<"reactions", "to">>, <<"read", "to">>, <<"edit", "to">>, <<"delete", "to">>,
       <<"pin", "to">>, <<"unpin", "to">>, <<"list-pins", "to">>, <<"permissions", "to">>,
       <<"thread-create", "to">>, <<"thread-list", "none">>, <<"thread-reply", "to">>,
       <<"search", "none">>, <<"sticker", "to">>, <<"member-info", "none">>,
       <<"role-info", "none">>, <<"emoji-list", "none">>, <<"emoji-upload", "none">>,
       <<"sticker-upload", "none">>, <<"role-add", "none">>, <<"role-remove", "none">>,
       <<"channel-info", "channelId">>, <<"channel-list", "none">>,
       <<"channel-create", "none">>, <<"channel-edit", "channelId">>,
       <<"channel-delete", "channelId">>, <<"channel-move", "channelId">>,
       <<"category-create", "none">>, <<"category-edit", "none">>,
       <<"category-delete", "none">>, <<"voice-status", "none">>, <<"event-list", "none">>,
       <<"event-create", "none">>, <<"timeout", "none">>, <<"kick", "none">>,
       <<"ban", "none">> >>

\* MESSAGE_ACTION_TARGET_MODE[action]: the value of the entry written last for the key,
\* undefined when the object has no such key
MESSAGE_ACTION_TARGET_MODE(action) ==
    LET at == {i \in 1..Len(TargetModeEntries) : TargetModeEntries[i][1] = action}
    IN IF at = {} THEN Undefined
       ELSE TargetModeEntries[CHOOSE i \in at : \A j \in at : j <= i][2]

\* a target is required exactly for the actions whose mode is "to"
actionRequiresTargetForTo(action) == MESSAGE_ACTION_TARGET_MODE(action) = "to"

actionRequiresTarget(action) == MESSAGE_ACTION_TARGET_MODE(action) # "none"

\* channel-target.ts, applyTargetToParams: the generic target becomes the action's own key
applyTargetToParams(action, args) ==
    LET mode == MESSAGE_ACTION_TARGET_MODE(action) IN
    IF isString(args.target) /\ trim(args.target) # "" /\ mode = "to"
    THEN [args EXCEPT !.to = trim(args.target)]
    ELSE IF isString(args.target) /\ trim(args.target) # "" /\ mode = "channelId"
    THEN [args EXCEPT !.channelId = trim(args.target)]
    ELSE args

\* channel-selection.ts: the channels that exist, and the ones a configuration has set up
KnownChannels == {"discord", "slack", "telegram", "signal"}

listConfiguredMessageChannels(cfg) == cfg.configured

unknownChannelError(hint) == "Unknown channel: " \o hint


\* channel-selection.ts, resolveMessageChannelSelection: the hinted channel when there is
\* such a channel, else the single configured channel; anything else is an error
resolveMessageChannelSelection(cfg, hint) ==
    IF hint # Undefined
    THEN IF toLowerCase(trim(hint)) \in KnownChannels
         THEN [thrown |-> FALSE, error |-> Undefined, channel |-> toLowerCase(trim(hint))]
         ELSE [thrown |-> TRUE, error |-> unknownChannelError(toLowerCase(trim(hint))),
               channel |-> Undefined]
    ELSE IF Len(listConfiguredMessageChannels(cfg)) = 1
    THEN [thrown |-> FALSE, error |-> Undefined,
          channel |-> listConfiguredMessageChannels(cfg)[1]]
    ELSE [thrown |-> TRUE, error |-> "Channel is required", channel |-> Undefined]

\* resolveChannel that settles for the first configured channel when there is no hint
resolveChannelFirstConfigured(cfg, params) ==
    IF readStringParam(params.channel) = Undefined
       /\ Len(listConfiguredMessageChannels(cfg)) > 1
    THEN [thrown |-> FALSE, error |-> Undefined,
          channel |-> listConfiguredMessageChannels(cfg)[1]]
    ELSE resolveMessageChannelSelection(cfg, readStringParam(params.channel))

resolveChannel(cfg, params) ==
    resolveMessageChannelSelection(cfg, readStringParam(params.channel))

\* a parameter that holds a list, or is missing
NoList == [given |-> FALSE, values |-> <<>>]
List(values) == [given |-> TRUE, values |-> values]

NoParams ==
    [channel |-> Undefined, targets |-> NoList, buttons |-> Undefined,
     message |-> Undefined, media |-> Undefined, target |-> Undefined, to |-> Undefined,
     channelId |-> Undefined, accountId |-> Undefined, dryRun |-> Undefined,
     pollQuestion |-> Undefined, pollOption |-> NoList, pollMulti |-> Undefined,
     replyTo |-> Undefined, embeds |-> Undefined]

NoConfig == [ref |-> NullRef, broadcast |-> "absent", configured |-> <<>>]

\* RunMessageActionParams
NoInput ==
    [cfg |-> NoConfig, action |-> Undefined, params |-> NoParams,
     defaultAccountId |-> Undefined, toolContext |-> FALSE, dryRun |-> Undefined]

\* MessageActionRunResult, or the error a run threw
NoOutcome ==
    [kind |-> "none", error |-> Undefined, channel |-> Undefined, action |-> Undefined,
     to |-> Undefined, handledBy |-> Undefined, dryRun |-> FALSE, sendResult |-> Undefined,
     payload |-> Undefined, results |-> <<>>]


\* one call of runMessageAction that is waiting: its input, its working copy of the
\* parameters (own: the copy is an object of its own, not the caller's) and the locals
\* of the handler it is in
NoFrame ==
    [pc |-> "none", input |-> NoInput, params |-> NoParams, own |-> TRUE,
     channel |-> Undefined,
     accountId |-> Undefined, dryRun |-> FALSE, targetChannels |-> <<>>, rawTargets |-> <<>>,
     ci |-> 0, ti |-> 0, resolvedTo |-> Undefined, results |-> <<>>, message |-> Undefined]

NoCall ==
    [channel |-> Undefined, input |-> Undefined, accountId |-> Undefined,
     preferredKind |-> Undefined]

\* a call of a collaborator: which one, what it was handed, and the action of the call
\* of runMessageAction that made it (none for a call handleBroadcastAction makes)
NoEvent ==
    [call |-> "none", channel |-> Undefined, action |-> Undefined, to |-> Undefined,
     channelId |-> Undefined, message |-> Undefined, mediaUrl |-> Undefined,
     maxSelections |-> 0, dryRun |-> FALSE]

\* an object of parameters: its keys and values, and whether it is an object of the
\* run's own (a copy) or the object the caller passed in
NoObject == [own |-> TRUE, fields |-> NoParams]

\* params = input.params: the working parameters are the caller's object itself
aliasOf(params) == [own |-> FALSE, fields |-> params]

\* { ...input.params }: a new object with the same keys and values
spread(params) == [own |-> TRUE, fields |-> params]

Event(call) == [NoEvent EXCEPT !.call = call]

\* what a stretch of code between two awaits ends in: it throws, it returns, or it waits
\* for a collaborator (call: the call of resolveChannelTarget it waits for); did: the
\* collaborators the stretch has called, in order; wrote: the params of the request as the
\* stretch leaves them
throws(error) ==
    [kind |-> "thrown", error |-> error, value |-> NoOutcome, frame |-> NoFrame,
     call |-> NoCall, did |-> <<>>, left |-> NoObject]

returns(value) ==
    [kind |-> "returned", error |-> Undefined, value |-> value, frame |-> NoFrame,
     call |-> NoCall, did |-> <<>>, left |-> NoObject]

awaits(frame, call) ==
    [kind |-> "awaiting", error |-> Undefined, value |-> NoOutcome, frame |-> frame,
     call |-> call, did |-> <<>>, left |-> [own |-> frame.own, fields |-> frame.params]]

\* the stretch seg, after the calls in did
after(did, seg) == [seg EXCEPT !.did = did \o @]

\* the stretch seg, which worked on the object obj and leaves params in it
leaving(obj, params, seg) ==
    [seg EXCEPT !.left = [own |-> obj.own, fields |-> params],
                !.frame = IF seg.kind = "awaiting" THEN [@ EXCEPT !.own = obj.own] ELSE @]


\* handleBroadcastAction from the head of an iteration of the inner loop: the call of
\* resolveChannelTarget for the pair, or the return once every channel is done
broadcastLoop(frame) ==
    IF frame.ci > Len(frame.targetChannels)
    THEN returns([NoOutcome EXCEPT
                    !.kind = "broadcast",
                    !.channel = IF Len(frame.targetChannels) > 0
                                THEN frame.targetChannels[1] ELSE "discord",
                    !.handledBy = IF frame.input.dryRun = JsTrue THEN "dry-run" ELSE "core",
                    !.results = frame.results,
                    !.dryRun = (frame.input.dryRun = JsTrue)])
    ELSE awaits([frame EXCEPT !.pc = "awaitPairResolve", !.resolvedTo = Undefined],
                [NoCall EXCEPT !.channel = frame.targetChannels[frame.ci],
                               !.input = frame.rawTargets[frame.ti]])

\* a loop that walks the targets in the outer loop and the channels in the inner one
nextPairTargetMajor(frame) ==
    IF frame.ci < Len(frame.targetChannels) /\ frame.ti <= Len(frame.rawTargets)
    THEN [frame EXCEPT !.ci = frame.ci + 1]
    ELSE IF frame.ti < Len(frame.rawTargets)
    THEN [frame EXCEPT !.ci = 1, !.ti = frame.ti + 1]
    ELSE [frame EXCEPT !.ci = Len(frame.targetChannels) + 1, !.ti = 1]

\* for (const targetChannel of targetChannels) for (const target of rawTargets)
nextPair(frame) ==
    IF frame.ti < Len(frame.rawTargets)
    THEN [frame EXCEPT !.ti = frame.ti + 1]
    ELSE [frame EXCEPT !.ci = frame.ci + 1, !.ti = 1]

\* the end of the try block of a pair, or its catch block
pairSettled(frame, failed, error, sendResult) ==
    LET channel == frame.targetChannels[frame.ci]
        pushed == IF failed
                  THEN [channel |-> channel, to |-> frame.rawTargets[frame.ti],
                        ok |-> FALSE, error |-> error, result |-> Undefined]
                  ELSE [channel |-> channel, to |-> frame.resolvedTo,
                        ok |-> TRUE, error |-> Undefined, result |-> sendResult]
    IN broadcastLoop(nextPair([frame EXCEPT !.results = Append(frame.results, pushed)]))

\* handleBroadcastAction up to the first call of resolveChannelTarget
handleBroadcastAction(input, params) ==
    LET broadcastEnabled == input.cfg.broadcast # "disabled"
        rawTargets == readStringArrayParam(params.targets, "targets")
        channelHint == readStringParam(params.channel)
        configured == listConfiguredMessageChannels(input.cfg)
        hinted == channelHint # Undefined /\ toLowerCase(trim(channelHint)) # "all"
        selection == resolveMessageChannelSelection(input.cfg, channelHint)
    IN IF ~broadcastEnabled THEN throws("Broadcast is disabled. Set tools.message.broadcast.enabled to true.")
       ELSE IF rawTargets.thrown THEN throws(rawTargets.error)
       ELSE IF Len(rawTargets.value) = 0 THEN throws("Broadcast requires at least one target in --targets.")
       ELSE IF Len(configured) = 0 THEN throws("Broadcast requires at least one configured channel.")
       ELSE IF hinted /\ selection.thrown
       THEN after(<<Event("selectChannel")>>, throws(selection.error))
       ELSE after(IF hinted THEN <<Event("selectChannel")>> ELSE <<>>,
                  broadcastLoop([NoFrame EXCEPT
                     !.input = input, !.params = params,
                     !.targetChannels = IF hinted THEN <<selection.channel>> ELSE configured,
                     !.rawTargets = rawTargets.value,
                     !.ci = 1, !.ti = 1]))

targetRequiredError(action) == "Action " \o action \o " requires a target."

userTargetError(channelIdRaw) ==
    "Channel id \"" \o channelIdRaw \o "\" resolved to a user target."

policyError == "Cross-context messaging denied"

unsupportedActionError(action, channel) ==
    "Message action " \o action \o " not supported for channel " \o channel \o "."

sendError == "send failed"

\* agents/tools/common.ts, readStringParam with its options: the text, trimmed unless
\* told otherwise; a value that is not a text, or is empty where that is not allowed,
\* is absent, and an error when the parameter is required
readStringParamWith(raw, label, required, trimmed, allowEmpty) ==
    LET value == IF isString(raw) THEN (IF trimmed THEN trim(raw) ELSE raw) ELSE Undefined
        absent == value = Undefined \/ (value = "" /\ ~allowEmpty)
    IN [thrown |-> absent /\ required,
        error |-> IF absent /\ required THEN label \o " required" ELSE Undefined,
        value |-> IF absent THEN Undefined ELSE value]

\* auto-reply/reply/reply-directives.ts, parseReplyDirectives, on the directives the
\* model's messages use: a leading reply tag, or a line that names a media URL
parseReplyDirectives(message) ==
    IF startsWith(message, "[[reply_to:7]]")
    THEN [text |-> trim(slice(message, 14)), replyToId |-> "7", mediaUrl |-> Undefined]
    ELSE IF startsWith(message, "MEDIA:")
    THEN [text |-> "", replyToId |-> Undefined, mediaUrl |-> slice(message, 6)]
    ELSE [text |-> message, replyToId |-> Undefined, mediaUrl |-> Undefined]

\* outbound-policy.ts, applyCrossContextDecoration: embeds when the decoration has them,
\* else the message between the decoration's prefix and suffix
applyCrossContextDecoration(message, decoration) ==
    IF decoration = "embeds" THEN [message |-> message, embeds |-> JsonValue]
    ELSE [message |-> "[from dev] " \o message, embeds |-> Undefined]

\* applyCrossContextMessageDecoration: the parameters it leaves
applyCrossContextMessageDecoration(params, message, decoration) ==
    LET applied == applyCrossContextDecoration(message, decoration) IN
    [params EXCEPT !.message = applied.message,
                   !.embeds = IF applied.embeds # Undefined THEN applied.embeds ELSE @]

\* JavaScript truthiness of a parameter's value
truthy(v) == v \notin {Undefined, JsFalse, ""}

\* handleSendAction from `await executeSendAction`
sendDispatch(frame) ==
    LET mediaUrl == readStringParamWith(frame.params.media, "media", FALSE, FALSE, FALSE)
    IN after(<<[Event("send") EXCEPT !.channel = frame.channel, !.action = "send",
                                      !.to = readStringParam(frame.params.to),
                                      !.message = frame.message,
                                      !.mediaUrl = mediaUrl.value,
                                      !.dryRun = frame.dryRun]>>,
             awaits([frame EXCEPT !.pc = "awaitDispatch"], NoCall))

\* handlePollAction from `await executePollAction`
pollDispatch(frame) ==
    LET options == frame.params.pollOption.values
        allowMultiselect == readBooleanParam(frame.params.pollMulti) = JsTrue
        maxSelections == IF allowMultiselect
                         THEN (IF Len(options) > 2 THEN Len(options) ELSE 2) ELSE 1
    IN after(<<[Event("poll") EXCEPT !.channel = frame.channel, !.action = "poll",
                                      !.to = readStringParam(frame.params.to),
                                      !.maxSelections = maxSelections,
                                      !.dryRun = frame.dryRun]>>,
             awaits([frame EXCEPT !.pc = "awaitPoll"], NoCall))

\* the handler waits for buildCrossContextDecoration
decorationAwaited(frame) ==
    after(<<[Event("decorate") EXCEPT !.channel = frame.channel,
                                      !.to = readStringParam(frame.params.to)]>>,
          awaits([frame EXCEPT !.pc = "awaitDecoration"], NoCall))

\* handleSendAction that asks for a message whether or not there is a media hint
handleSendActionMessageAlways(frame) ==
    LET params == frame.params
        to == readStringParamWith(params.to, "to", TRUE, TRUE, FALSE)
        read == readStringParamWith(params.message, "message", TRUE, TRUE, TRUE)
        parsed == parseReplyDirectives(nullish(read.value, ""))
        merged == [params EXCEPT
                     !.message = parsed.text,
                     !.replyTo = IF ~truthy(@) /\ truthy(parsed.replyToId)
                                 THEN parsed.replyToId ELSE @,
                     !.media = IF ~truthy(@) THEN parsed.mediaUrl ELSE @]
        next == [frame EXCEPT !.params = merged, !.message = parsed.text]
    IN IF to.thrown THEN leaving(frame, params, throws(to.error))
       ELSE IF read.thrown THEN leaving(frame, params, throws(read.error))
       ELSE IF frame.input.toolContext THEN decorationAwaited(next)
       ELSE sendDispatch(next)

\* handleSendAction that asks for a message in a live run only
handleSendActionLenientWhenDry(frame) ==
    LET params == frame.params
        to == readStringParamWith(params.to, "to", TRUE, TRUE, FALSE)
        mediaHint == readStringParamWith(params.media, "media", FALSE, FALSE, FALSE)
        read == readStringParamWith(params.message, "message",
                                    mediaHint.value = Undefined /\ ~frame.dryRun, TRUE, TRUE)
        parsed == parseReplyDirectives(nullish(read.value, ""))
        merged == [params EXCEPT
                     !.message = parsed.text,
                     !.replyTo = IF ~truthy(@) /\ truthy(parsed.replyToId)
                                 THEN parsed.replyToId ELSE @,
                     !.media = IF ~truthy(@) THEN parsed.mediaUrl ELSE @]
        next == [frame EXCEPT !.params = merged, !.message = parsed.text]
    IN IF to.thrown THEN leaving(frame, params, throws(to.error))
       ELSE IF read.thrown THEN leaving(frame, params, throws(read.error))
       ELSE IF frame.input.toolContext THEN decorationAwaited(next)
       ELSE sendDispatch(next)

\* handleSendAction up to its first await
handleSendAction(frame) ==
    LET params == frame.params
        to == readStringParamWith(params.to, "to", TRUE, TRUE, FALSE)
        mediaHint == readStringParamWith(params.media, "media", FALSE, FALSE, FALSE)
        read == readStringParamWith(params.message, "message", mediaHint.value = Undefined,
                                    TRUE, TRUE)
        parsed == parseReplyDirectives(nullish(read.value, ""))
        merged == [params EXCEPT
                     !.message = parsed.text,
                     !.replyTo = IF ~truthy(@) /\ truthy(parsed.replyToId)
                                 THEN parsed.replyToId ELSE @,
                     !.media = IF ~truthy(@) THEN parsed.mediaUrl ELSE @]
        next == [frame EXCEPT !.params = merged, !.message = parsed.text]
    IN IF to.thrown THEN leaving(frame, params, throws(to.error))
       ELSE IF read.thrown THEN leaving(frame, params, throws(read.error))
       ELSE IF frame.input.toolContext THEN decorationAwaited(next)
       ELSE sendDispatch(next)

\* handlePollAction up to its first await
handlePollAction(frame) ==
    LET params == frame.params
        to == readStringParamWith(params.to, "to", TRUE, TRUE, FALSE)
        question == readStringParamWith(params.pollQuestion, "pollQuestion", TRUE, TRUE, FALSE)
        options == readStringArrayParam(params.pollOption, "pollOption")
    IN IF to.thrown THEN leaving(frame, params, throws(to.error))
       ELSE IF question.thrown THEN leaving(frame, params, throws(question.error))
       ELSE IF options.thrown THEN leaving(frame, params, throws(options.error))
       ELSE IF Len(options.value) < 2
       THEN leaving(frame, params, throws("pollOption requires at least two values"))
       ELSE IF frame.input.toolContext THEN decorationAwaited(frame)
       ELSE pollDispatch(frame)

\* the handlers after buildCrossContextDecoration returned decoration, "none" for null
decorationBuilt(frame, decoration) ==
    IF frame.input.action = "send"
    THEN IF decoration = "none" THEN sendDispatch(frame)
         ELSE LET params == applyCrossContextMessageDecoration(frame.params, frame.message,
                                                               decoration)
              IN sendDispatch([frame EXCEPT !.params = params, !.message = params.message])
    ELSE IF decoration = "none" THEN pollDispatch(frame)
    ELSE LET base == IF isString(frame.params.message) THEN frame.params.message ELSE ""
         IN pollDispatch([frame EXCEPT !.params =
                 applyCrossContextMessageDecoration(frame.params, base, decoration)])

\* handleSendAction after executeSendAction returned
sendReturned(frame, handledBy) ==
    leaving(frame, frame.params,
            returns([NoOutcome EXCEPT !.kind = "send", !.channel = frame.channel,
                                      !.action = "send",
                                      !.to = readStringParam(frame.params.to),
                                      !.handledBy = handledBy,
                                      !.sendResult = IF frame.dryRun THEN "dry-run" ELSE "sent",
                                      !.dryRun = frame.dryRun]))

\* handlePollAction after executePollAction returned
pollReturned(frame, handledBy) ==
    leaving(frame, frame.params,
            returns([NoOutcome EXCEPT !.kind = "poll", !.channel = frame.channel,
                                      !.action = "poll",
                                      !.to = readStringParam(frame.params.to),
                                      !.handledBy = handledBy,
                                      !.dryRun = frame.dryRun]))

\* a plugin action that always goes to dispatchChannelMessageAction
handlePluginActionAlwaysDispatches(frame) ==
    after(<<[Event("plugin") EXCEPT !.channel = frame.channel,
                                    !.action = frame.input.action,
                                    !.dryRun = frame.dryRun]>>,
          awaits([frame EXCEPT !.pc = "awaitPlugin"], NoCall))

\* handlePluginAction up to `await dispatchChannelMessageAction`
handlePluginAction(frame) ==
    IF frame.dryRun
    THEN leaving(frame, frame.params,
                 returns([NoOutcome EXCEPT !.kind = "action", !.channel = frame.channel,
                                           !.action = frame.input.action,
                                           !.handledBy = "dry-run",
                                           !.payload = "{ok,dryRun,channel,action}",
                                           !.dryRun = TRUE]))
    ELSE after(<<[Event("plugin") EXCEPT !.channel = frame.channel,
                                         !.action = frame.input.action,
                                         !.dryRun = frame.dryRun]>>,
               awaits([frame EXCEPT !.pc = "awaitPlugin"], NoCall))

\* handlePluginAction after dispatchChannelMessageAction returned handled, null when no
\* plugin handles the action
pluginReturned(frame, handled) ==
    IF handled = NullRef
    THEN leaving(frame, frame.params,
                 throws(unsupportedActionError(frame.input.action, frame.channel)))
    ELSE leaving(frame, frame.params,
                 returns([NoOutcome EXCEPT !.kind = "action", !.channel = frame.channel,
                                           !.action = frame.input.action,
                                           !.handledBy = "plugin",
                                           !.dryRun = frame.dryRun]))

\* runMessageAction from its call of enforceCrossContextPolicy
policyAwaited(frame) ==
    after(<<[Event("policy") EXCEPT !.channel = frame.channel,
                                    !.action = frame.input.action,
                                    !.to = frame.params.to,
                                    !.channelId = frame.params.channelId,
                                    !.dryRun = frame.dryRun]>>,
          awaits([frame EXCEPT !.pc = "atPolicy"], NoCall))

\* a policy check whose denial counts in a live run only
policyEnforcedWhenLive(frame, deny) ==
    IF deny /\ ~frame.dryRun THEN leaving(frame, frame.params, throws(policyError))
    ELSE IF frame.input.action = "send" THEN handleSendAction(frame)
    ELSE IF frame.input.action = "poll" THEN handlePollAction(frame)
    ELSE handlePluginAction(frame)

\* a runner that hands a poll to the plugin handler
policyEnforcedPollAsPlugin(frame, deny) ==
    IF deny THEN leaving(frame, frame.params, throws(policyError))
    ELSE IF frame.input.action = "send" THEN handleSendAction(frame)
    ELSE handlePluginAction(frame)

\* runMessageAction after enforceCrossContextPolicy: it threw (deny), or the handler of
\* the action runs up to its first await
policyEnforced(frame, deny) ==
    IF deny THEN leaving(frame, frame.params, throws(policyError))
    ELSE IF frame.input.action = "send" THEN handleSendAction(frame)
    ELSE IF frame.input.action = "poll" THEN handlePollAction(frame)
    ELSE handlePluginAction(frame)

\* args.channelId.replace(/^(channel|group):/i, "")
stripChannelPrefix(to) ==
    IF startsWith(toLowerCase(to), "channel:") THEN slice(to, 8)
    ELSE IF startsWith(toLowerCase(to), "group:") THEN slice(to, 6)
    ELSE to

\* resolveActionTarget from its second block, the one for channelId
resolveChannelIdTarget(frame) ==
    LET channelIdRaw == IF isString(frame.params.channelId)
                        THEN trim(frame.params.channelId) ELSE ""
    IN IF channelIdRaw # ""
       THEN after(<<[Event("resolveTarget") EXCEPT !.channel = frame.channel,
                                                   !.action = frame.input.action,
                                                   !.to = channelIdRaw]>>,
                  awaits([frame EXCEPT !.pc = "awaitChannelId"],
                         [NoCall EXCEPT !.channel = frame.channel, !.input = channelIdRaw,
                                        !.accountId = frame.accountId,
                                        !.preferredKind = "group"]))
       ELSE policyAwaited(frame)

\* resolveActionTarget up to its first await
resolveActionTarget(frame) ==
    LET toRaw == IF isString(frame.params.to) THEN trim(frame.params.to) ELSE ""
    IN IF toRaw # ""
       THEN after(<<[Event("resolveTarget") EXCEPT !.channel = frame.channel,
                                                   !.action = frame.input.action,
                                                   !.to = toRaw]>>,
                  awaits([frame EXCEPT !.pc = "awaitTarget"],
                         [NoCall EXCEPT !.channel = frame.channel, !.input = toRaw,
                                        !.accountId = frame.accountId]))
       ELSE resolveChannelIdTarget(frame)

\* a `to` block that stores the destination without its channel prefix
targetResolvedStripsPrefix(frame, resolved) ==
    IF resolved.thrown \/ ~resolved.ok
    THEN leaving(frame, frame.params, throws(resolved.error))
    ELSE resolveChannelIdTarget([frame EXCEPT !.params.to = stripChannelPrefix(resolved.to)])

\* resolveActionTarget after the call of resolveChannelTarget for `to` returned
targetResolved(frame, resolved) ==
    IF resolved.thrown \/ ~resolved.ok
    THEN leaving(frame, frame.params, throws(resolved.error))
    ELSE resolveChannelIdTarget([frame EXCEPT !.params.to = resolved.to])

\* a channelId block that takes a user target too
channelIdResolvedAnyKind(frame, resolved) ==
    IF resolved.thrown \/ ~resolved.ok
    THEN leaving(frame, frame.params, throws(resolved.error))
    ELSE policyAwaited([frame EXCEPT !.params.channelId = stripChannelPrefix(resolved.to)])

\* resolveActionTarget after the call of resolveChannelTarget for `channelId` returned
channelIdResolved(frame, resolved) ==
    IF resolved.thrown \/ ~resolved.ok
    THEN leaving(frame, frame.params, throws(resolved.error))
    ELSE IF resolved.kind = "user"
    THEN leaving(frame, frame.params, throws(userTargetError(trim(frame.params.channelId))))
    ELSE policyAwaited([frame EXCEPT !.params.channelId = stripChannelPrefix(resolved.to)])

\* a dry-run flag that lets the dryRun parameter win over the flag of the request
resolveDryRunParamFirst(input, params) ==
    LET param == readBooleanParam(params.dryRun) IN
    (IF param # Undefined THEN param ELSE input.dryRun) = JsTrue

\* Boolean(input.dryRun ?? readBooleanParam(params, "dryRun"))
resolveDryRun(input, params) ==
    (IF input.dryRun # Undefined THEN input.dryRun
     ELSE readBooleanParam(params.dryRun)) = JsTrue

\* runMessageAction that resolves the channel before it asks for a target
runActionChannelFirst(input, obj, parsed) ==
    LET action == input.action
        params == applyTargetToParams(action, parsed)
        hasTarget == \/ isString(params.to) /\ trim(params.to) # ""
                     \/ isString(params.channelId) /\ trim(params.channelId) # ""
        selection == resolveChannel(input.cfg, params)
        account == readStringParam(params.accountId)
        accountId == IF account # Undefined THEN account ELSE input.defaultAccountId
    IN IF selection.thrown
       THEN leaving(obj, params, after(<<[Event("selectChannel") EXCEPT !.action = action]>>,
                                       throws(selection.error)))
       ELSE IF actionRequiresTarget(action) /\ ~hasTarget
       THEN leaving(obj, params, after(<<[Event("selectChannel") EXCEPT !.action = action]>>,
                                       throws(targetRequiredError(action))))
       ELSE after(<<[Event("selectChannel") EXCEPT !.channel = selection.channel,
                                                   !.action = action]>>,
                  resolveActionTarget(
                      [NoFrame EXCEPT !.input = input, !.params = params, !.own = obj.own,
                                      !.channel = selection.channel,
                                      !.accountId = accountId,
                                      !.dryRun = resolveDryRun(input, params)]))

\* runMessageAction after parseButtonsParam, for an action other than broadcast, working
\* on the object obj
runAction(input, obj, parsed) ==
    LET action == input.action
        params == applyTargetToParams(action, parsed)
        hasTarget == \/ isString(params.to) /\ trim(params.to) # ""
                     \/ isString(params.channelId) /\ trim(params.channelId) # ""
        selection == resolveChannel(input.cfg, params)
        account == readStringParam(params.accountId)
        accountId == IF account # Undefined THEN account ELSE input.defaultAccountId
    IN IF actionRequiresTarget(action) /\ ~hasTarget
       THEN leaving(obj, params, throws(targetRequiredError(action)))
       ELSE IF selection.thrown
       THEN leaving(obj, params, after(<<[Event("selectChannel") EXCEPT !.action = action]>>,
                                       throws(selection.error)))
       ELSE after(<<[Event("selectChannel") EXCEPT !.channel = selection.channel,
                                                   !.action = action]>>,
                  resolveActionTarget(
                      [NoFrame EXCEPT !.input = input, !.params = params, !.own = obj.own,
                                      !.channel = selection.channel,
                                      !.accountId = accountId,
                                      !.dryRun = resolveDryRun(input, params)]))

\* runMessageAction working on obj, the object its params name
runOn(input, obj) ==
    LET parsed == parseButtonsParam(obj.fields) IN
    IF parsed.thrown THEN leaving(obj, parsed.params, throws(parsed.error))
    ELSE IF input.action = "broadcast"
    THEN leaving(obj, parsed.params, handleBroadcastAction(input, parsed.params))
    ELSE runAction(input, obj, parsed.params)

\* runMessageAction that works on the caller's object
runMessageActionInPlace(input) == runOn(input, aliasOf(input.params))

\* runMessageAction up to its first await
runMessageAction(input) == runOn(input, spread(input.params))

\* an input for the pair that keeps the action of the broadcast
pairSendInputKeepsAction(frame, to) ==
    [frame.input EXCEPT !.params = [frame.params EXCEPT
                                       !.channel = frame.targetChannels[frame.ci],
                                       !.target = to]]

\* the input of the send a broadcast makes for a resolved pair
pairSendInput(frame, to) ==
    [frame.input EXCEPT !.action = "send",
                        !.params = [frame.params EXCEPT
                                       !.channel = frame.targetChannels[frame.ci],
                                       !.target = to]]

\* no run of runMessageAction has started
RunIdle ==
    /\ request = NoInput
    /\ stack = <<>>
    /\ outcome = NoOutcome
    /\ attempts = <<>>
    /\ events = <<>>
    /\ callerParams = NoParams

----------------------------------------------------------------------------
(* SpecCache: the DirectoryCache API and resetDirectoryCache called directly *)

InitCacheState ==
    /\ cache = EmptyCache
    /\ lastConfigRef = NullRef
    /\ now = 0
    /\ ticks = 0
    /\ calls = 0
    /\ lastOp = NoOp

ResolverIdle ==
    /\ directory = WorldEmpty
    /\ dirFilters = FALSE
    /\ tasks = [p \in Tasks |-> IdleTask]

InitCache == InitCacheState /\ ResolverIdle /\ RunIdle

\* directoryCache.get(key, cfg)
Get(key, cfg) ==
    LET r == cacheGet(cache, lastConfigRef, key, cfg, now) IN
    /\ calls < MaxCalls
    /\ cache' = r.cache
    /\ lastConfigRef' = cfg
    /\ calls' = calls + 1
    /\ lastOp' = [NoOp EXCEPT !.op = "get", !.key = key, !.cfg = cfg, !.found = r.found,
                               !.value = r.value, !.pre = cache, !.preRef = lastConfigRef]
    /\ UNCHANGED <<now, ticks>>
    /\ UNCHANGED resolverVars
    /\ UNCHANGED runVars

\* directoryCache.set(key, value, cfg)
Set(key, value, cfg) ==
    /\ calls < MaxCalls
    /\ cache' = cacheSet(cache, lastConfigRef, key, value, cfg, now)
    /\ lastConfigRef' = cfg
    /\ calls' = calls + 1
    /\ lastOp' = [NoOp EXCEPT !.op = "set", !.key = key, !.cfg = cfg, !.value = value,
                               !.pre = cache, !.preRef = lastConfigRef]
    /\ UNCHANGED <<now, ticks>>
    /\ UNCHANGED resolverVars
    /\ UNCHANGED runVars

\* resetDirectoryCache({channel, accountId}); without a channel it is directoryCache.clear()
Reset(channel, accountId) ==
    /\ calls < MaxCalls
    /\ cache' = resetDirectoryCache(cache, channel, accountId)
    /\ calls' = calls + 1
    /\ lastOp' = [NoOp EXCEPT !.op = "reset", !.channel = channel, !.accountId = accountId,
                               !.pre = cache, !.preRef = lastConfigRef]
    /\ UNCHANGED <<lastConfigRef, now, ticks>>
    /\ UNCHANGED resolverVars
    /\ UNCHANGED runVars

\* directoryCache.clear(cfg)
Clear(cfg) ==
    /\ calls < MaxCalls
    /\ cache' = EmptyCache
    /\ lastConfigRef' = cfg
    /\ calls' = calls + 1
    /\ lastOp' = [NoOp EXCEPT !.op = "clear", !.cfg = cfg, !.pre = cache, !.preRef = lastConfigRef]
    /\ UNCHANGED <<now, ticks>>
    /\ UNCHANGED resolverVars
    /\ UNCHANGED runVars

NextCache ==
    \/ \E key \in CacheKeys, cfg \in Configs : Get(key, cfg)
    \/ \E key \in CacheKeys, cfg \in Configs : Set(key, SnapshotOf(cfg), cfg)
    \/ \E channel \in CacheChannels \cup {Undefined}, accountId \in ResetAccountIds :
          Reset(channel, accountId)
    \/ \E cfg \in Configs : Clear(cfg)

SpecCache == InitCache /\ [][NextCache]_vars

----------------------------------------------------------------------------
(* SpecResolve: calls of resolveMessagingTarget, one after the other, on one shared cache *)

Request(channel, input, accountId, preferredKind) ==
    [channel |-> channel, input |-> input, accountId |-> accountId,
     preferredKind |-> preferredKind]

ResolveRequests ==
    { Request("discord", "general", Undefined, Undefined),
      Request("discord", " #General ", Undefined, Undefined),
      Request("discord", "dev", Undefined, Undefined),
      Request("discord", "nobody", Undefined, Undefined),
      Request("discord", "123456789", Undefined, Undefined),
      Request("discord", "@bob", "work", Undefined),
      Request("slack", "#C12345678", Undefined, Undefined),
      Request("telegram", "@ops", Undefined, Undefined),
      Request("telegram", "team", Undefined, Undefined),
      Request("signal", "general", Undefined, Undefined) }

InitResolver ==
    /\ directory \in Directories
    /\ dirFilters \in BOOLEAN
    /\ tasks = [p \in Tasks |-> IdleTask]

InitResolve == InitCacheState /\ InitResolver /\ RunIdle

\* calls follow one another: call number k takes slot (k mod NumTasks) + 1 once every
\* earlier call has returned, so the slots hold the most recent calls
canStart(p) ==
    /\ calls < MaxResolves
    /\ p = (calls % NumTasks) + 1
    /\ \A q \in Tasks : tasks[q].pc \in {"idle", "done"}

StartResolve(p, req, cfg) ==
    /\ canStart(p)
    /\ resolveMessagingTarget(p, cfg, req.channel, req.input, req.accountId, req.preferredKind)
    /\ calls' = calls + 1
    /\ UNCHANGED <<now, ticks, directory, dirFilters>>
    /\ UNCHANGED runVars

NextResolve ==
    \/ \E p \in Tasks, req \in ResolveRequests, cfg \in Configs : StartResolve(p, req, cfg)
    \/ \E p \in Tasks : CacheListingReturns(p)
    \/ \E p \in Tasks : LiveListingReturns(p)

SpecResolve == InitResolve /\ [][NextResolve]_vars

----------------------------------------------------------------------------
(* SpecTtl: calls on one channel while the clock advances *)

TtlRequests ==
    { Request("discord", "general", Undefined, Undefined),
      Request("discord", "dev", Undefined, Undefined) }

NextTtl ==
    \/ \E p \in Tasks, req \in TtlRequests, cfg \in Configs : StartResolve(p, req, cfg)
    \/ \E p \in Tasks : CacheListingReturns(p)
    \/ \E p \in Tasks : LiveListingReturns(p)
    \/ Tick

SpecTtl == InitResolve /\ [][NextTtl]_vars

----------------------------------------------------------------------------
(* SpecReads: a store and the reads that follow it while the clock advances *)

ReadRequests == { Request("discord", "general", Undefined, Undefined) }

\* resolveMessagingTarget, called once the call before it has returned
StartRead(p, req, cfg) ==
    /\ calls < MaxReads
    /\ p = (calls % NumTasks) + 1
    /\ \A q \in Tasks : tasks[q].pc \in {"idle", "done"}
    /\ resolveMessagingTarget(p, cfg, req.channel, req.input, req.accountId, req.preferredKind)
    /\ calls' = calls + 1
    /\ UNCHANGED <<now, ticks, directory, dirFilters>>
    /\ UNCHANGED runVars

\* time passes between two calls
Elapse ==
    /\ ticks < MaxElapses
    /\ \A q \in Tasks : tasks[q].pc \in {"idle", "done"}
    /\ \E d \in TickSteps : now' = now + d
    /\ ticks' = ticks + 1
    /\ lastOp' = [lastOp EXCEPT !.op = "tick"]
    /\ UNCHANGED <<cache, lastConfigRef, calls>>
    /\ UNCHANGED resolverVars
    /\ UNCHANGED runVars

NextReads ==
    \/ \E p \in Tasks, req \in ReadRequests, cfg \in Configs : StartRead(p, req, cfg)
    \/ \E p \in Tasks : CacheListingReturns(p)
    \/ \E p \in Tasks : LiveListingReturns(p)
    \/ Elapse

SpecReads == InitResolve /\ [][NextReads]_vars

----------------------------------------------------------------------------
(* SpecConcurrent: calls of resolveMessagingTarget that overlap on the shared cache *)

\* a group of the default account and a user of the account "work": two cache keys
ConcurrentRequests ==
    { Request("discord", "general", Undefined, Undefined),
      Request("discord", "@bob", "work", Undefined) }

\* resolveMessagingTarget, called while another call may be waiting for its listing
StartConcurrent(p, req, cfg) ==
    /\ calls < MaxReads
    /\ tasks[p].pc \in {"idle", "done"}
    /\ resolveMessagingTarget(p, cfg, req.channel, req.input, req.accountId, req.preferredKind)
    /\ calls' = calls + 1
    /\ UNCHANGED <<now, ticks, directory, dirFilters>>
    /\ UNCHANGED runVars

NextConcurrent ==
    \/ \E p \in Tasks, req \in ConcurrentRequests, cfg \in Configs :
          StartConcurrent(p, req, cfg)
    \/ \E p \in Tasks : CacheListingReturns(p)
    \/ \E p \in Tasks : LiveListingReturns(p)

SpecConcurrent == InitResolve /\ [][NextConcurrent]_vars

----------------------------------------------------------------------------
(* SpecInvalidate: resetDirectoryCache among calls of resolveMessagingTarget that wait *)

\* calls that read the same key of discord
InvalidateRequests ==
    { Request("discord", "general", Undefined, Undefined),
      Request("discord", "dev", Undefined, Undefined) }

\* resolveMessagingTarget in a slot of its own, so that every call stays on record; the
\* calls are numbered together with the resets
StartOnce(p, req, cfg) ==
    /\ calls < MaxCalls
    /\ tasks[p].pc = "idle"
    /\ \A q \in 1..(p - 1) : tasks[q].pc # "idle"
    /\ resolveMessagingTarget(p, cfg, req.channel, req.input, req.accountId, req.preferredKind)
    /\ calls' = calls + 1
    /\ UNCHANGED <<now, ticks, directory, dirFilters>>
    /\ UNCHANGED runVars

NextInvalidate ==
    \/ \E p \in Tasks, req \in InvalidateRequests, cfg \in Configs : StartOnce(p, req, cfg)
    \/ \E p \in Tasks : CacheListingReturns(p)
    \/ \E p \in Tasks : LiveListingReturns(p)
    \/ \E accountId \in {Undefined, ""} : Reset("discord", accountId)

SpecInvalidate == InitResolve /\ [][NextInvalidate]_vars

----------------------------------------------------------------------------
(* SpecLookup: calls of lookupDirectoryDisplay among calls of the resolver *)

\* canonical ids to look up: two the directories list, one they do not
LookupTargets == {"111111111", "channel:222222222", "999999999"}

\* a channel with a directory and one without
LookupChannels == {"discord", "signal"}

\* resolver calls that fill the cache, the live key included
LookupRequests ==
    { Request("discord", "general", Undefined, Undefined),
      Request("discord", "dev", "work", Undefined) }

StartLookup(p, cfg, channel, targetId, accountId) ==
    /\ canStart(p)
    /\ lookupDirectoryDisplay(p, cfg, channel, targetId, accountId)
    /\ calls' = calls + 1
    /\ UNCHANGED <<now, ticks, directory, dirFilters>>
    /\ UNCHANGED runVars

NextLookup ==
    \/ \E p \in Tasks, cfg \in Configs, channel \in LookupChannels,
          targetId \in LookupTargets, accountId \in {Undefined, "work"} :
              StartLookup(p, cfg, channel, targetId, accountId)
    \/ \E p \in Tasks, req \in LookupRequests, cfg \in Configs : StartResolve(p, req, cfg)
    \/ \E p \in Tasks : CacheListingReturns(p)
    \/ \E p \in Tasks : LiveListingReturns(p)
    \/ \E p \in Tasks : ListingThrows(p)

SpecLookup == InitResolve /\ [][NextLookup]_vars

----------------------------------------------------------------------------
(* SpecRun: one run of runMessageAction, with the resolver and the collaborators it awaits *)

\* the resolver call of the run occupies the first slot
RunTask == 1

\* resolveChannelTarget(params): resolveMessagingTarget on the same parameters
resolveChannelTarget(cfg, call) ==
    IF call = NoCall
    THEN UNCHANGED <<cache, lastConfigRef, lastOp, tasks, calls>>
    ELSE /\ resolveMessagingTarget(RunTask, cfg.ref, call.channel, call.input,
                                   call.accountId, call.preferredKind)
         /\ calls' = calls + 1

RECURSIVE settle(_, _)
\* where the end of a stretch of code leaves the waiting calls and the outcome of the run:
\* a call that throws or returns hands over to the call below it, which is a broadcast
\* waiting in the try block of a pair
settle(below, seg) ==
    IF seg.kind = "awaiting"
    THEN [stack |-> Append(below, seg.frame), outcome |-> NoOutcome, call |-> seg.call,
          did |-> seg.did]
    ELSE IF below = <<>>
    THEN [stack |-> <<>>,
          outcome |-> IF seg.kind = "thrown" THEN [NoOutcome EXCEPT !.kind = "thrown", !.error = seg.error] ELSE seg.value,
          call |-> NoCall, did |-> seg.did]
    ELSE settle(SubSeq(below, 1, Len(below) - 1),
                after(seg.did,
                      pairSettled(below[Len(below)], seg.kind = "thrown", seg.error,
                                  IF seg.value.kind = "send" THEN seg.value.sendResult
                                  ELSE Undefined)))

\* the record of a pair the broadcast has tried: what its resolution and its send came to
Attempt(frame, resolved, child) ==
    [channel |-> frame.targetChannels[frame.ci],
     target |-> frame.rawTargets[frame.ti],
     resolved |-> ~(resolved.thrown \/ ~resolved.ok),
     to |-> resolved.to,
     send |-> IF resolved.thrown \/ ~resolved.ok THEN "none"
              ELSE IF child.kind = "awaiting" THEN "pending"
              ELSE IF child.kind = "thrown" THEN "threw" ELSE "returned",
     error |-> IF resolved.thrown \/ ~resolved.ok THEN resolved.error ELSE child.error,
     call |-> tasks[RunTask]]

\* the send of the pair in progress ends
noteSend(seg) ==
    IF Len(stack) = 2 /\ seg.kind # "awaiting"
    THEN [attempts EXCEPT ![Len(attempts)] =
             [@ EXCEPT !.send = IF seg.kind = "thrown" THEN "threw" ELSE "returned",
                       !.error = seg.error]]
    ELSE attempts

proceed(input, s) ==
    /\ stack' = s.stack
    /\ outcome' = s.outcome
    /\ events' = events \o s.did
    /\ resolveChannelTarget(input.cfg, s.call)
    /\ UNCHANGED <<now, ticks, directory, dirFilters>>

\* what the stretch seg of the call at the given depth leaves in the caller's object: the
\* outermost call writes to it when its working parameters are that object
written(depth, seg) ==
    IF depth = 1 /\ ~seg.left.own THEN seg.left.fields ELSE callerParams

RunMessageAction(input) ==
    /\ request = NoInput
    /\ request' = input
    /\ attempts' = <<>>
    /\ LET seg == runMessageAction(input)
       IN /\ callerParams' = IF seg.left.own THEN input.params ELSE seg.left.fields
          /\ proceed(input, settle(<<>>, seg))

\* a broadcast that starts the send of a pair and goes on to the next pair without
\* waiting for it
PairResolvedSendNotAwaited ==
    /\ Len(stack) = 1
    /\ stack[1].pc = "awaitPairResolve"
    /\ tasks[RunTask].pc = "done"
    /\ LET frame == stack[1]
           resolved == tasks[RunTask].result
           failed == resolved.thrown \/ ~resolved.ok
           child == runMessageAction(pairSendInput(frame, resolved.to))
       IN /\ attempts' = Append(attempts, Attempt(frame, resolved, child))
          /\ proceed(frame.input,
                     settle(<<>>, pairSettled([frame EXCEPT !.resolvedTo = resolved.to],
                                              failed, resolved.error, Undefined)))
    /\ UNCHANGED <<request, callerParams>>

\* the broadcast's call of resolveChannelTarget for a pair has returned or thrown
PairResolved ==
    /\ Len(stack) = 1
    /\ stack[1].pc = "awaitPairResolve"
    /\ tasks[RunTask].pc = "done"
    /\ LET frame == stack[1]
           resolved == tasks[RunTask].result
           failed == resolved.thrown \/ ~resolved.ok
           waiting == [frame EXCEPT !.pc = "awaitPairSend", !.resolvedTo = resolved.to]
           child == runMessageAction(pairSendInput(frame, resolved.to))
       IN /\ attempts' = Append(attempts, Attempt(frame, resolved, child))
          /\ proceed(frame.input,
                     IF failed
                     THEN settle(<<>>, pairSettled(frame, TRUE, resolved.error, Undefined))
                     ELSE settle(<<waiting>>, child))
    /\ UNCHANGED <<request, callerParams>>

\* the innermost call is waiting at pc
waitingAt(pc) == stack # <<>> /\ stack[Len(stack)].pc = pc

\* the innermost call goes on with the stretch seg
resume(seg) ==
    /\ attempts' = noteSend(seg)
    /\ callerParams' = written(Len(stack), seg)
    /\ proceed(stack[Len(stack)].input, settle(SubSeq(stack, 1, Len(stack) - 1), seg))
    /\ UNCHANGED request

\* resolveActionTarget's call of resolveChannelTarget for `to` has returned or thrown
ActionTargetResolved ==
    /\ waitingAt("awaitTarget")
    /\ tasks[RunTask].pc = "done"
    /\ resume(targetResolved(stack[Len(stack)], tasks[RunTask].result))

\* resolveActionTarget's call of resolveChannelTarget for `channelId` has returned or thrown
ChannelIdResolved ==
    /\ waitingAt("awaitChannelId")
    /\ tasks[RunTask].pc = "done"
    /\ resume(channelIdResolved(stack[Len(stack)], tasks[RunTask].result))

\* enforceCrossContextPolicy returns, or throws (deny); without a tool context there is
\* no context to cross
PolicyEnforced(deny) ==
    /\ waitingAt("atPolicy")
    /\ deny => stack[Len(stack)].input.toolContext
    /\ resume(after(IF deny THEN <<Event("denied")>> ELSE <<>>,
                    policyEnforced(stack[Len(stack)], deny)))

\* buildCrossContextDecoration returns a decoration, or null
DecorationBuilt(decoration) ==
    /\ waitingAt("awaitDecoration")
    /\ resume(decorationBuilt(stack[Len(stack)], decoration))

\* executeSendAction returns; a dry run sends nothing and is handled by the core
SendReturns(handledBy) ==
    /\ waitingAt("awaitDispatch")
    /\ stack[Len(stack)].dryRun => handledBy = "core"
    /\ resume(sendReturned(stack[Len(stack)], handledBy))

\* executeSendAction rejects
SendThrows ==
    /\ waitingAt("awaitDispatch")
    /\ ~stack[Len(stack)].dryRun
    /\ resume(throws(sendError))

\* executePollAction returns; a dry run sends nothing and is handled by the core
PollReturns(handledBy) ==
    /\ waitingAt("awaitPoll")
    /\ stack[Len(stack)].dryRun => handledBy = "core"
    /\ resume(pollReturned(stack[Len(stack)], handledBy))

\* executePollAction rejects
PollThrows ==
    /\ waitingAt("awaitPoll")
    /\ ~stack[Len(stack)].dryRun
    /\ resume(throws(sendError))

\* dispatchChannelMessageAction returns a tool result, or null
PluginReturns(handled) ==
    /\ waitingAt("awaitPlugin")
    /\ resume(after(<<Event(IF handled = NullRef THEN "unhandled" ELSE "handled")>>,
                    pluginReturned(stack[Len(stack)], handled)))

\* dispatchChannelMessageAction rejects
PluginThrows ==
    /\ waitingAt("awaitPlugin")
    /\ resume(throws(sendError))


RunConfigs ==
    { [ref |-> "cfgA", broadcast |-> "absent", configured |-> <<"discord", "slack">>],
      [ref |-> "cfgB", broadcast |-> "enabled", configured |-> <<"telegram">>],
      [ref |-> "cfgA", broadcast |-> "disabled", configured |-> <<"discord">>],
      [ref |-> "cfgB", broadcast |-> "absent", configured |-> <<>>] }

Broadcast(targets, channel, buttons, message) ==
    [NoInput EXCEPT !.action = "broadcast",
                    !.params = [NoParams EXCEPT !.targets = targets, !.channel = channel,
                                                !.buttons = buttons, !.message = message]]

Send(target, channel, message) ==
    [NoInput EXCEPT !.action = "send",
                    !.params = [NoParams EXCEPT !.target = target, !.channel = channel,
                                                !.message = message]]

RunRequests ==
    { Broadcast(List(<<"general", "dev">>), Undefined, Undefined, "hi"),
      Broadcast(List(<<"123456789", "nobody">>), " ALL ", Undefined, "hi"),
      Broadcast(List(<<"dev">>), "discord", "[[]]", "hi"),
      Broadcast(List(<<"dev", "@bob">>), "Slack", "  ", "hi"),
      Broadcast(List(<<"dev">>), "nochannel", Undefined, "hi"),
      Broadcast(List(<<"ops", "dev">>), "discord", Undefined, "hi"),
      Broadcast(List(<<"dev">>), Undefined, "{oops", "hi"),
      Broadcast(List(<<"dev", "123456789">>), Undefined, "\"x\"", "hi"),
      Broadcast(NoList, Undefined, Undefined, "hi"),
      Broadcast(List(<<>>), Undefined, Undefined, "hi"),
      Broadcast(List(<<"dev", "123456789">>), Undefined, Undefined, Undefined),
      [Broadcast(List(<<"dev", "123456789">>), Undefined, Undefined, "hi")
          EXCEPT !.toolContext = TRUE],
      [Broadcast(List(<<"dev", "123456789">>), "discord", Undefined, "hi")
          EXCEPT !.dryRun = JsTrue],
      Send("dev", "discord", "hi"),
      Send(Undefined, "discord", "hi"),
      [Send("123456789", Undefined, "hi") EXCEPT !.params.dryRun = " TRUE "],
      [Broadcast(List(<<"dev", "123456789">>), "discord", Undefined, "hi")
          EXCEPT !.params.dryRun = JsTrue],
      [Broadcast(List(<<"123456789">>), "discord", Undefined, "hi")
          EXCEPT !.dryRun = JsFalse, !.params.dryRun = "true"],
      Broadcast(List(<<"#C12345678", "#ops">>), "slack", Undefined, "hi") }

Poll(target, channel, options) ==
    [NoInput EXCEPT !.action = "poll",
                    !.params = [NoParams EXCEPT !.target = target, !.channel = channel,
                                                !.pollQuestion = "lunch?",
                                                !.pollOption = options]]

Act(action, target, channel) ==
    [NoInput EXCEPT !.action = action,
                    !.params = [NoParams EXCEPT !.target = target, !.channel = channel]]

\* sends with and without a message, a media hint, directives and a tool context
SendRequests ==
    { Send("123456789", "discord", Undefined),
      Send("123456789", "discord", ""),
      [Send("123456789", "discord", Undefined) EXCEPT !.params.media = "http://m/1.png"],
      [Send("123456789", "discord", Undefined) EXCEPT !.params.media = "  "],
      [Send("123456789", "discord", JsonValue) EXCEPT !.params.buttons = " "],
      [Send("dev", Undefined, "[[reply_to:7]] hi") EXCEPT !.toolContext = TRUE],
      [Send("123456789", "discord", "MEDIA:http://m/2.png") EXCEPT !.toolContext = TRUE],
      [Send("123456789", "discord", Undefined) EXCEPT !.toolContext = TRUE],
      [Send("123456789", "discord", Undefined)
          EXCEPT !.params.media = "http://m/3.png", !.toolContext = TRUE],
      [Send(Undefined, "discord", "hi") EXCEPT !.params.channelId = "channel:123456789"] }

\* polls and plugin actions of every target mode
ActionRequests ==
    { Poll("123456789", "discord", List(<<"a", "b", "c">>)),
      [Poll("123456789", "discord", List(<<"a", "b">>))
          EXCEPT !.params.pollMulti = " True ", !.toolContext = TRUE],
      Poll("123456789", Undefined, List(<<"a">>)),
      Poll("dev", "discord", NoList),
      Act("react", "123456789", Undefined),
      [Act("react", "dev", "discord") EXCEPT !.toolContext = TRUE],
      Act("pin", "  ", "discord"),
      Act("channel-info", "channel:123456789", "discord"),
      Act("channel-info", "Group:Team42", Undefined),
      Act("channel-edit", "team", Undefined),
      Act("channel-edit", "@bob", "discord"),
      Act("channel-info", "user:444444444", "discord"),
      Act("channel-info", "<@444444444>", "discord"),
      Act("channel-delete", Undefined, Undefined),
      Act("search", Undefined, Undefined),
      [Act("search", Undefined, "discord") EXCEPT !.toolContext = TRUE],
      [Act("search", "dev", "discord") EXCEPT !.params.to = "general"],
      [Act("kick", Undefined, "nochannel") EXCEPT !.params.dryRun = JsTrue],
      [Act("search", Undefined, "discord") EXCEPT !.dryRun = JsFalse,
                                                  !.params.dryRun = JsTrue],
      [Act("search", Undefined, "discord") EXCEPT !.params.dryRun = "True"],
      [Act("search", Undefined, "discord") EXCEPT !.params.dryRun = "yes"],
      [Send("123456789", "discord", "hi") EXCEPT !.dryRun = JsFalse,
                                                 !.params.dryRun = "true"],
      [Send("123456789", "discord", "hi") EXCEPT !.params.dryRun = JsFalse] }

\* each request, live and as a dry run
RunInputs ==
    {[r EXCEPT !.cfg = cfg] : r \in RunRequests, cfg \in RunConfigs}
        \cup {[r EXCEPT !.cfg = cfg, !.dryRun = IF dry THEN JsTrue ELSE @] :
                 r \in SendRequests \cup ActionRequests, cfg \in RunConfigs,
                 dry \in BOOLEAN}

\* what buildCrossContextDecoration may return: null, a text marker, or embeds
Decorations == {"none", "text", "embeds"}

\* what dispatchChannelMessageAction may return: null, or a tool result
ToolResults == {NullRef, "toolResult"}

InitRun == InitResolve

NextRun ==
    \/ \E input \in RunInputs : RunMessageAction(input)
    \/ PairResolved
    \/ ActionTargetResolved
    \/ ChannelIdResolved
    \/ \E deny \in BOOLEAN : PolicyEnforced(deny)
    \/ \E decoration \in Decorations : DecorationBuilt(decoration)
    \/ \E handledBy \in {"plugin", "core"} : SendReturns(handledBy)
    \/ SendThrows
    \/ \E handledBy \in {"plugin", "core"} : PollReturns(handledBy)
    \/ PollThrows
    \/ \E handled \in ToolResults : PluginReturns(handled)
    \/ PluginThrows
    \/ CacheListingReturns(RunTask)
    \/ LiveListingReturns(RunTask)
    \/ ListingThrows(RunTask)

SpecRun == InitRun /\ [][NextRun]_vars

----------------------------------------------------------------------------
(* SpecBroadcast: one broadcast, in which every awaited collaborator call comes back *)

\* the requests of SpecRun that are broadcasts
BroadcastInputs == {input \in RunInputs : input.action = "broadcast"}

\* a step that ends a wait of the broadcast or of the send of a pair: the collaborator
\* that is awaited, the directory or a dispatcher, returns or throws, and the waiting call
\* goes on
CollaboratorAnswers ==
    \/ PairResolved
    \/ ActionTargetResolved
    \/ \E deny \in BOOLEAN : PolicyEnforced(deny)
    \/ \E decoration \in Decorations : DecorationBuilt(decoration)
    \/ \E handledBy \in {"plugin", "core"} : SendReturns(handledBy)
    \/ SendThrows
    \/ CacheListingReturns(RunTask)
    \/ LiveListingReturns(RunTask)
    \/ ListingThrows(RunTask)

NextBroadcast ==
    \/ \E input \in BroadcastInputs : RunMessageAction(input)
    \/ CollaboratorAnswers

\* a call of the run is waiting for a collaborator: exactly then can a step of
\* CollaboratorAnswers be taken
awaitingAnswer == stack # <<>>

\* the awaited collaborator answers in the end. The fairness condition is
\* WF_vars(CollaboratorAnswers), written out with awaitingAnswer as the condition under
\* which the step is enabled.
SpecBroadcast ==
    InitRun /\ [][NextBroadcast]_vars
            /\ ([]<>~awaitingAnswer \/ []<><<CollaboratorAnswers>>_vars)

----------------------------------------------------------------------------
(* Properties of the target resolver *)

\* the input, trimmed and normalised for the channel, passes the channel's identifier test
isIdentifierShaped(channel, input) ==
    LET raw == trim(input)
        n == normalizeTargetForProvider(channel, raw)
    IN raw # "" /\ looksLikeId(channel, IF n # Undefined THEN n ELSE raw)

\* the entry matches the input: its normalised id, its name or its handle, stripped of
\* prefixes and in lower case, equals or contains the stripped lower-case query
entryMatchesInput(channel, entry, input) ==
    LET q == toLowerCase(stripTargetPrefixes(trim(input))) IN
    /\ q # ""
    /\ \E field \in {normalizeDirectoryEntryId(channel, entry), entry.name, entry.handle} :
          /\ field # Undefined
          /\ includes(toLowerCase(stripTargetPrefixes(field)), q)

matchingEntries(t) ==
    SelectSeq(t.entries, LAMBDA entry : entryMatchesInput(t.channel, entry, t.input))

\* a finished resolution of an input that is not identifier-shaped
resolvedByDirectory(t) ==
    /\ t.pc = "done"
    /\ t.op = "resolve"
    /\ ~t.result.thrown
    /\ trim(t.input) # ""
    /\ ~isIdentifierShaped(t.channel, t.input)

\* C4: when more than one entry of the consulted listing matches a non-identifier input,
\* resolve fails with "ambiguous target" and its candidates are exactly the matching
\* entries in the listing's order; it never succeeds by picking one of them.
C4_AmbiguousListsAllMatches ==
    \A p \in Tasks :
        LET t == tasks[p] IN
        (resolvedByDirectory(t) /\ Len(matchingEntries(t)) > 1) =>
            /\ ~t.result.ok
            /\ t.result.to = Undefined
            /\ t.result.error = ambiguousTargetError(trim(t.input))
            /\ t.result.candidates = matchingEntries(t)

\* two candidates, the first (and the second in cfgB's order) named exactly like the query
C4_Witness ==
    \E p \in Tasks :
        /\ resolvedByDirectory(tasks[p])
        /\ tasks[p].input = "general"
        /\ tasks[p].result.candidates = <<generalDev, general>>

\* C5: a non-identifier input resolves with source "directory" exactly when one entry of
\* the consulted listing matches; then `to` is the entry's normalised id and the display
\* label its name, else its handle, else its prefix-stripped id. With no matching entry the
\* result is the failure "unknown target" without candidates.
C5_SingleMatchResolves ==
    \A p \in Tasks :
        LET t == tasks[p]
            m == matchingEntries(t)
        IN resolvedByDirectory(t) =>
            /\ (t.result.ok /\ t.result.source = "directory") <=> (Len(m) = 1)
            /\ t.result.ok => t.result.source = "directory"
            /\ Len(m) = 1 =>
                  /\ t.result.to = normalizeDirectoryEntryId(t.channel, m[1])
                  /\ t.result.display =
                        (IF m[1].name # Undefined THEN m[1].name
                         ELSE IF m[1].handle # Undefined THEN m[1].handle
                         ELSE stripTargetPrefixes(m[1].id))
                  /\ t.result.candidates = <<>>
            /\ Len(m) = 0 =>
                  /\ ~t.result.ok
                  /\ t.result.error = unknownTargetError(trim(t.input), t.channel)
                  /\ t.result.candidates = <<>>

\* a user found by handle in a listing of one entry that has a name and a handle
C5_Witness ==
    \E p \in Tasks :
        /\ resolvedByDirectory(tasks[p])
        /\ tasks[p].input = "@bob"
        /\ tasks[p].result.ok
        /\ tasks[p].result.source = "directory"
        /\ tasks[p].result.display = "Bob"
        /\ tasks[p].result.to = "channel:444444444"

\* C6: an input whose normalised form passes the channel's identifier test resolves with
\* source "normalized" at once, with no directory query (cache variant or live) and no
\* read or write of the directory cache, whatever the cache holds.
C6_IdentifierSkipsDirectory ==
    \A p \in Tasks :
        LET t == tasks[p] IN
        (t.pc # "idle" /\ t.op = "resolve" /\ isIdentifierShaped(t.channel, t.input)) =>
            /\ t.pc = "done"
            /\ t.result.ok
            /\ t.result.source = "normalized"
            /\ t.fetches = 0 /\ t.liveFetches = 0
            /\ t.cacheReads = 0 /\ t.cacheWrites = 0
            /\ (t.seq = calls /\ \A q \in Tasks : tasks[q].pc # "awaitCache" /\ tasks[q].pc # "awaitLive")
                   => lastOp = NoOp

\* an identifier resolved under one configuration while the cache holds another one's listing
C6_Witness ==
    \E p \in Tasks :
        /\ tasks[p].pc = "done"
        /\ tasks[p].result.source = "normalized"
        /\ tasks[p].seq = calls
        /\ DOMAIN cache # {}
        /\ lastConfigRef # tasks[p].cfg

----------------------------------------------------------------------------
(* Properties of the directory cache *)

totalFetches(t) == t.fetches + t.liveFetches

\* call q is the resolver call right after call p, for the same channel, account and kind,
\* and p found nothing in the cache
follows(p, q) ==
    /\ resolvedByDirectory(tasks[p])
    /\ resolvedByDirectory(tasks[q])
    /\ tasks[q].seq = tasks[p].seq + 1
    /\ tasks[q].channel = tasks[p].channel
    /\ tasks[q].accountId = tasks[p].accountId
    /\ tasks[q].dirKind = tasks[p].dirKind
    /\ ~tasks[p].hit

withinTtl(p, q) == tasks[q].startedAt - tasks[p].endedAt <= CACHE_TTL_MS

\* C7: two successive resolves of one (channel, account, kind) under the same
\* configuration object and within the time to live issue exactly one directory fetch in
\* total; under another configuration object the second call issues a fetch of its own.
C7_OneFetchInTotal ==
    \A p, q \in Tasks :
        (follows(p, q) /\ withinTtl(p, q)) =>
            IF tasks[q].cfg = tasks[p].cfg
            THEN totalFetches(tasks[p]) + totalFetches(tasks[q]) = 1
            ELSE totalFetches(tasks[q]) >= 1

\* what getDirectoryEntries does for the two calls of C7: one fetch in total when the
\* listing the first call fetched for the cache source is not empty. When it is empty
\* nothing is stored under the key getDirectoryEntries reads (the live listing goes under
\* the live key, which it never reads), and each of the two calls issues a fetch for the
\* cache source and a live fetch. Under another configuration object the second call
\* fetches.
fetchesOfTwoCalls ==
    \A p, q \in Tasks :
        (follows(p, q) /\ withinTtl(p, q)) =>
            LET first == tasks[p]
                second == tasks[q]
                listed == listingOf(first.cfg, first.dirKind, first.query, "cache")
            IN IF second.cfg # first.cfg
               THEN second.fetches = 1 /\ ~second.hit
               ELSE IF Len(listed) > 0
               THEN /\ totalFetches(first) + totalFetches(second) = 1
                    /\ first.fetches = 1
                    /\ second.hit
                    /\ second.entries = first.entries
               ELSE /\ first.fetches = 1 /\ first.liveFetches = 1
                    /\ second.fetches = 1 /\ second.liveFetches = 1
                    /\ ~second.hit

\* the second call is served from the cache some time after the first one fetched
C7_Witness ==
    \E p, q \in Tasks :
        /\ follows(p, q)
        /\ withinTtl(p, q)
        /\ tasks[q].cfg = tasks[p].cfg
        /\ tasks[q].startedAt > tasks[p].endedAt
        /\ tasks[q].hit
        /\ totalFetches(tasks[p]) + totalFetches(tasks[q]) = 1

\* the most recent call was a get under the configuration that stored the key's entry
getOfStoredEntry ==
    /\ lastOp.op = "get"
    /\ lastOp.preRef = lastOp.cfg
    /\ lastOp.key \in DOMAIN lastOp.pre

ageAtGet == now - lastOp.pre[lastOp.key].fetchedAt

\* C8: an entry set at time T is returned by a get under the same configuration object up
\* to and including T + 30 minutes and is absent afterwards; the get that finds it expired
\* removes it, and the resolution that made that get fetches the listing afresh.
C8_TtlBoundary ==
    /\ getOfStoredEntry =>
          /\ lastOp.found <=> (ageAtGet <= 30 * 60 * 1000)
          /\ lastOp.found => (lastOp.value = lastOp.pre[lastOp.key].value /\ cache = lastOp.pre)
          /\ ~lastOp.found => lastOp.key \notin DOMAIN cache
    /\ \A p \in Tasks :
          (tasks[p].pc = "done" /\ tasks[p].hadEntry /\ tasks[p].age > 30 * 60 * 1000) =>
              (~tasks[p].hit /\ tasks[p].fetches = 1)

\* an entry one millisecond past the time to live was evicted and the listing fetched again
C8_Witness ==
    \E p \in Tasks :
        /\ tasks[p].pc = "done"
        /\ tasks[p].hadEntry
        /\ tasks[p].age = 30 * 60 * 1000 + 1
        /\ ~tasks[p].hit
        /\ tasks[p].fetches = 1
        /\ tasks[p].result.ok

\* C9: a get or a set with a configuration object other than the one last seen empties
\* the cache before it acts: the get finds nothing and leaves the cache empty, the set
\* leaves its own key only; the configuration last seen becomes the one of the call.
C9_ConfigChangeClears ==
    (lastOp.op \in {"get", "set"} /\ lastOp.preRef # NullRef /\ lastOp.preRef # lastOp.cfg) =>
        /\ lastConfigRef = lastOp.cfg
        /\ lastOp.op = "get" => (~lastOp.found /\ DOMAIN cache = {})
        /\ lastOp.op = "set" =>
              /\ DOMAIN cache = {lastOp.key}
              /\ cache[lastOp.key].value = lastOp.value

\* a get of a key that was stored under the other configuration, next to another key
C9_Witness ==
    /\ lastOp.op = "get"
    /\ lastOp.preRef \notin {NullRef, lastOp.cfg}
    /\ lastOp.key \in DOMAIN lastOp.pre
    /\ Cardinality(DOMAIN lastOp.pre) = 2

\* the keys of a reset's scope: every kind and both sources, of the account when one is
\* given and of every account otherwise
scopeKeys(channel, accountId) ==
    {buildDirectoryCacheKey(channel, a, kind, source) :
        a \in (IF accountId \in {Undefined, ""} THEN AccountIds ELSE {accountId}),
        kind \in DirectoryKinds, source \in Sources}

\* C10: resetDirectoryCache(channel[, account]) leaves no key of the scope in the cache,
\* neither of the cache source nor of the live source, of either entry kind.
C10_ResetClearsBothSources ==
    (lastOp.op = "reset" /\ lastOp.channel \in CacheChannels) =>
        /\ scopeKeys(lastOp.channel, lastOp.accountId) \cap DOMAIN cache = {}
        /\ \A key \in DOMAIN cache : cache[key] = lastOp.pre[key]

\* a reset of one account that held a listing of each source
C10_Witness ==
    /\ lastOp.op = "reset"
    /\ lastOp.channel = "discord"
    /\ lastOp.accountId = "work"
    /\ \E k1, k2 \in scopeKeys("discord", "work") \cap DOMAIN lastOp.pre :
          endsWith(k1, ":cache") /\ endsWith(k2, ":live")

----------------------------------------------------------------------------
(* Properties of the broadcast *)

\* the channel hint of the request, as the broadcast reads it
hintOf(input) ==
    IF isString(input.params.channel) /\ trim(input.params.channel) # ""
    THEN toLowerCase(trim(input.params.channel))
    ELSE Undefined

\* the target channels C of a broadcast: the hinted channel, or the configured channels
\* in configured order
channelsOf(input) ==
    IF hintOf(input) \notin {Undefined, "all"} THEN <<hintOf(input)>>
    ELSE input.cfg.configured

\* the raw targets T of a broadcast, in the order given
targetsOf(input) == input.params.targets.values

\* the k-th pair of the channel-major enumeration of C x T
pairChannel(input, k) == channelsOf(input)[((k - 1) \div Len(targetsOf(input))) + 1]
pairTarget(input, k) == targetsOf(input)[((k - 1) % Len(targetsOf(input))) + 1]

\* the pairs tried so far are the first pairs of the channel-major enumeration, and the
\* outcomes so far are theirs, but for the pair whose send has not ended yet
inChannelMajorOrder(results) ==
    /\ Len(attempts) <= Len(channelsOf(request)) * Len(targetsOf(request))
    /\ Len(results) = IF attempts # <<>> /\ attempts[Len(attempts)].send = "pending"
                      THEN Len(attempts) - 1 ELSE Len(attempts)
    /\ \A k \in 1..Len(attempts) :
          /\ attempts[k].channel = pairChannel(request, k)
          /\ attempts[k].target = pairTarget(request, k)
    /\ \A k \in 1..Len(results) :
          /\ results[k].channel = pairChannel(request, k)
          /\ ~results[k].ok => results[k].to = pairTarget(request, k)

\* C1: a broadcast over channels C and raw targets T that passes its preconditions returns
\* exactly |C| x |T| outcomes, one per pair, in channel-major order: every target of the
\* first channel in target order, then every target of the second channel, and so on,
\* whichever pairs fail. While the broadcast runs, its outcomes are a prefix of that order.
C1_OutcomesChannelMajor ==
    /\ outcome.kind = "broadcast" =>
          /\ Len(outcome.results) = Len(channelsOf(request)) * Len(targetsOf(request))
          /\ inChannelMajorOrder(outcome.results)
    /\ (stack # <<>> /\ request.action = "broadcast") => inChannelMajorOrder(stack[1].results)

\* two channels and two targets, of which some pairs failed and some succeeded
C1_Witness ==
    /\ outcome.kind = "broadcast"
    /\ Len(channelsOf(request)) = 2
    /\ Len(targetsOf(request)) = 2
    /\ Len(outcome.results) = 4
    /\ ~outcome.results[1].ok
    /\ outcome.results[2].ok
    /\ ~outcome.results[3].ok

\* the first half of C2: in a broadcast the failure of a pair, in its resolution or in
\* its send, is recorded as an outcome with ok = false and the failure's message, and is
\* never thrown by the broadcast; every pair is attempted whatever became of the others,
\* and the outcome of a pair is ok exactly when its own resolution and its own send
\* succeeded.
pairFailureIsRecorded ==
    /\ attempts # <<>> => outcome.kind # "thrown"
    /\ outcome.kind = "broadcast" =>
          /\ Len(attempts) = Len(channelsOf(request)) * Len(targetsOf(request))
          /\ Len(outcome.results) = Len(attempts)
          /\ \A k \in 1..Len(attempts) :
                LET pair == attempts[k]
                    result == outcome.results[k]
                IN /\ result.ok <=> (pair.resolved /\ pair.send = "returned")
                   /\ pair.send # "pending"
                   /\ ~pair.resolved => pair.send = "none"
                   /\ ~result.ok => /\ isString(result.error)
                                    /\ result.error = pair.error
                                    /\ result.result = Undefined
                   /\ result.ok => /\ result.error = Undefined
                                   /\ result.to = pair.to

\* what the cache-source listing of a resolver call holds when the collaborator answers
listedFor(t) == listingOf(t.cfg, t.dirKind, t.query, "cache")

\* pair j failed because its directory fetch was rejected, and would have resolved had the
\* fetch been answered; pair k came later, reads the same cache key and fetched for itself
failedAhead(j, k) ==
    LET first == attempts[j].call
        later == attempts[k].call
    IN /\ j < k
       /\ first.result.thrown /\ first.pc = "done" /\ first.liveFetches = 0
       /\ resolveFromEntries(first, listedFor(first)).ok
       /\ later.channel = first.channel
       /\ later.accountId = first.accountId
       /\ later.dirKind = first.dirKind
       /\ later.fetches = 1 /\ ~later.hit /\ ~later.result.thrown

\* C2: in a broadcast the failure of a pair is recorded as an outcome with ok = false and
\* a string message and is never propagated; every other pair is still attempted, and its
\* outcome is the same as it would be had the failing pair succeeded. Had the fetch of
\* the failing pair been answered, its listing would be in the cache under the key the
\* later pair reads, and the later pair would be resolved from that listing.
C2_OtherPairsUnaffected ==
    /\ pairFailureIsRecorded
    /\ outcome.kind = "broadcast" =>
          \A j, k \in 1..Len(attempts) :
              failedAhead(j, k) =>
                  LET would == resolveFromEntries(attempts[k].call, listedFor(attempts[j].call))
                  IN /\ would.ok = attempts[k].resolved
                     /\ would.ok => would.to = attempts[k].to
                     /\ ~would.ok => ~outcome.results[k].ok

\* a pair failed in its resolution, the next one in its send, and a later pair succeeded
C2_Witness ==
    /\ outcome.kind = "broadcast"
    /\ Len(attempts) = 4
    /\ ~attempts[1].resolved
    /\ attempts[2].resolved /\ attempts[2].send = "threw"
    /\ attempts[2].error = sendError
    /\ outcome.results[4].ok

malformedButtons(input) ==
    /\ isString(input.params.buttons)
    /\ trim(input.params.buttons) # ""
    /\ ~jsonParse(trim(input.params.buttons)).ok

\* a precondition check of the broadcast fails: disabled, no targets, no configured channel
preconditionFails(input) ==
    \/ input.cfg.broadcast = "disabled"
    \/ ~input.params.targets.given
    \/ input.params.targets.values = <<>>
    \/ input.cfg.configured = <<>>

unresolvableHint(input) ==
    hintOf(input) \notin {Undefined, "all"} /\ hintOf(input) \notin KnownChannels

\* C3 (as stated): a run with action broadcast throws only when a precondition check
\* fails: broadcasting disabled, targets empty or missing, or no configured channel.
C3_ThrowsOnlyOnPreconditions ==
    (request.action = "broadcast" /\ outcome.kind = "thrown") => preconditionFails(request)

\* C3 (amended): a run with action broadcast throws exactly when its buttons parameter is
\* malformed text, a precondition check fails, or its channel hint other than "all" cannot
\* be resolved; for every other input it ends in a broadcast result.
C3_ThrowsOnButtonsPreconditionsOrHint ==
    request.action = "broadcast" =>
        /\ outcome.kind = "thrown" <=>
              (malformedButtons(request) \/ preconditionFails(request) \/ unresolvableHint(request))
        /\ (stack = <<>> /\ outcome.kind # "thrown") => outcome.kind = "broadcast"

\* a broadcast with well-formed parameters threw because its channel hint is no channel
C3_Witness ==
    /\ request.action = "broadcast"
    /\ outcome.kind = "thrown"
    /\ unresolvableHint(request)
    /\ ~malformedButtons(request)
    /\ ~preconditionFails(request)
    /\ outcome.error = unknownChannelError(hintOf(request))

----------------------------------------------------------------------------
(* Properties of the run of a single action *)

\* the run has gone past parseButtonsParam with an action other than broadcast
pastValidation(input) ==
    /\ input # NoInput
    /\ input.action # "broadcast"
    /\ ~malformedButtons(input)

\* the value of the key holds, once target has been mapped, a text that is not blank
givenAfterMapping(input, key) ==
    LET mapped == applyTargetToParams(input.action, input.params)
        value == IF key = "to" THEN mapped.to ELSE mapped.channelId
    IN isString(value) /\ trim(value) # ""

\* the calls the run has made on the collaborators named in which
eventsOf(which) == SelectSeq(events, LAMBDA e : e.call \in which)

Dispatchers == {"send", "poll", "plugin"}

\* C11: a run of an action other than broadcast whose target mode is not "none", and
\* whose parameters hold, once `target` has been mapped, neither a `to` nor a `channelId`
\* that is a text with something in it, fails with "Action <action> requires a target."
\* and has by then made no call at all: no channel selection, no target resolution, no
\* policy check and no dispatch.
C11_TargetRequiredFirst ==
    ( /\ pastValidation(request)
      /\ MESSAGE_ACTION_TARGET_MODE(request.action) # "none"
      /\ ~givenAfterMapping(request, "to")
      /\ ~givenAfterMapping(request, "channelId") )
    => /\ stack = <<>>
       /\ outcome.kind = "thrown"
       /\ outcome.error = targetRequiredError(request.action)
       /\ events = <<>>
       /\ tasks[RunTask].pc = "idle"

\* a channelId action with no target at all has failed that way, under a configuration
\* that has no single channel to fall back on
C11_Witness ==
    /\ request.action = "channel-delete"
    /\ request.params.target = Undefined
    /\ Len(request.cfg.configured) # 1
    /\ outcome.kind = "thrown"
    /\ outcome.error = targetRequiredError("channel-delete")
    /\ events = <<>>

\* the places in the log of the calls of the collaborators named in which
placesOf(which) == {i \in 1..Len(events) : events[i].call \in which}

\* the policy check comes after every call of the target resolver, and it is handed the
\* destination the resolver returned: `to` as it is, `channelId` without its prefix
policyAfterResolution ==
    \A i \in placesOf({"policy"}) :
        /\ placesOf({"policy"}) = {i}
        /\ \A j \in placesOf({"resolveTarget"}) : j < i
        /\ \A j \in 1..(i - 1) : events[j].call \in {"selectChannel", "resolveTarget"}
        /\ givenAfterMapping(request, "to") => placesOf({"resolveTarget"}) # {}
        /\ (givenAfterMapping(request, "to") /\ ~givenAfterMapping(request, "channelId"))
              => /\ tasks[RunTask].result.ok
                 /\ events[i].to = tasks[RunTask].result.to
        /\ givenAfterMapping(request, "channelId")
              => /\ tasks[RunTask].result.ok
                 /\ events[i].channelId = stripChannelPrefix(tasks[RunTask].result.to)

\* the handlers (decoration and the three dispatchers) run after the policy check
policyBeforeHandlers ==
    \A j \in placesOf(Dispatchers \cup {"decorate"}) :
        \E i \in placesOf({"policy"}) : i < j

\* once the policy check has denied, the run has failed with the policy error and no
\* handler has run
denialFailsTheRun ==
    placesOf({"denied"}) # {}
        => /\ stack = <<>>
           /\ outcome.kind = "thrown"
           /\ outcome.error = policyError
           /\ placesOf(Dispatchers \cup {"decorate"}) = {}

\* C12: in a run of an action other than broadcast the cross-context policy check is made
\* after target resolution has put the canonical destination in place of the raw target
\* and before any handler runs; when it denies, the run fails with the policy error and
\* neither the send, the poll nor the plugin dispatcher is called, in a dry run as in a
\* live one.
C12_PolicyBetweenResolutionAndHandlers ==
    (request # NoInput /\ request.action # "broadcast")
        => /\ policyAfterResolution
           /\ policyBeforeHandlers
           /\ denialFailsTheRun

\* a dry run of a plugin action, whose target the directory resolved to an id, was denied
C12_Witness ==
    /\ request.action = "react"
    /\ request.dryRun = JsTrue
    /\ placesOf({"denied"}) # {}
    /\ \E i \in placesOf({"policy"}) :
          /\ events[i].dryRun
          /\ events[i].to # request.params.target
          /\ events[i].to = tasks[RunTask].result.to
    /\ outcome.error = policyError

\* a waiting call, a call of a collaborator and an input without their dry-run flags
sansDryRun(frame) == [frame EXCEPT !.dryRun = FALSE, !.input.dryRun = Undefined]

callsSansDryRun(did) == [i \in 1..Len(did) |-> [did[i] EXCEPT !.dryRun = FALSE]]

\* what the call waiting in frame does next when the collaborator it waits for answers:
\* the resolver with the result it has, the policy check with deny, the decoration
\* builder with decoration
stretchAfter(frame, deny, decoration) ==
    IF frame.pc = "awaitTarget" THEN targetResolved(frame, tasks[RunTask].result)
    ELSE IF frame.pc = "awaitChannelId" THEN channelIdResolved(frame, tasks[RunTask].result)
    ELSE IF frame.pc = "atPolicy" THEN policyEnforced(frame, deny)
    ELSE decorationBuilt(frame, decoration)

\* live and dry are what the same code does without and with the dry-run flag: where the
\* live one throws, the dry one throws the same error; where the live one goes on to a
\* collaborator, the dry one goes on to the same collaborator with the same arguments,
\* save that it returns at once where the live one calls the plugin dispatcher
sameButForDispatch(live, dry) ==
    /\ live.kind = "thrown" => dry.kind = "thrown" /\ dry.error = live.error
    /\ dry.kind = "thrown" => live.kind = "thrown"
    /\ (live.kind = "awaiting" /\ live.frame.pc # "awaitPlugin")
          => /\ dry.kind = "awaiting"
             /\ sansDryRun(dry.frame) = sansDryRun(live.frame)
             /\ dry.call = live.call
             /\ callsSansDryRun(dry.did) = callsSansDryRun(live.did)
    /\ (live.kind = "awaiting" /\ live.frame.pc = "awaitPlugin")
          => /\ dry.kind = "returned"
             /\ dry.value.handledBy = "dry-run"
             /\ dry.did = <<>>

\* the first stretch of the run of the request is the same with and without the flag
sameFirstStretch ==
    request # NoInput
        => sameButForDispatch(runMessageAction([request EXCEPT !.dryRun = Undefined]),
                              runMessageAction([request EXCEPT !.dryRun = JsTrue]))

\* so is every later stretch, whatever the collaborator answers
sameLaterStretches ==
    \A i \in 1..Len(stack) :
        (/\ stack[i].pc \in {"awaitTarget", "awaitChannelId", "atPolicy", "awaitDecoration"}
         /\ stack[i].pc \in {"awaitTarget", "awaitChannelId"} => tasks[RunTask].pc = "done")
        => \A deny \in BOOLEAN, decoration \in Decorations :
              sameButForDispatch(
                  stretchAfter([stack[i] EXCEPT !.dryRun = FALSE], deny, decoration),
                  stretchAfter([stack[i] EXCEPT !.dryRun = TRUE], deny, decoration))

\* C13: a request run with the dry-run flag set fails with exactly the error the same
\* request run live fails with in validation, in channel or target resolution and in
\* policy enforcement; up to the dispatch the two runs make the same calls with the same
\* arguments.
C13_DryRunFailsLikeLive ==
    /\ sameFirstStretch
    /\ sameLaterStretches

\* a dry run of a send without message or media has failed in validation, past the
\* resolution of its target and the policy check
C13_Witness ==
    /\ request.action = "send"
    /\ request.dryRun = JsTrue
    /\ placesOf({"policy"}) # {}
    /\ outcome.kind = "thrown"
    /\ outcome.error = "message required"

\* the run is one of the action, its target was resolved, the policy check let it pass
\* and its handler has run up to its first await or to its end
handlerEntered(action) ==
    /\ request.action = action
    /\ placesOf({"policy"}) # {}
    /\ placesOf({"denied"}) = {}
    /\ ~waitingAt("atPolicy")

noMessage(input) == ~isString(input.params.message)

mediaHinted(input) == isString(input.params.media) /\ input.params.media # ""

\* the empty message, as a cross-context decoration leaves it
emptyMessages ==
    {""} \cup {applyCrossContextDecoration("", d).message : d \in Decorations \ {"none"}}

\* C14: a send whose target was resolved and which has no message parameter fails with
\* "message required" when it has no media hint either, in a dry run as in a live one,
\* and nothing is dispatched; with a media hint it does not fail so: the send goes on to
\* the send collaborator with the empty message (as decoration leaves it) and the media.
C14_MessageRequiredUnlessMedia ==
    (handlerEntered("send") /\ noMessage(request))
        => IF mediaHinted(request)
           THEN /\ outcome.kind = "thrown" => outcome.error = sendError
                /\ stack # <<>> => stack[1].pc \in {"awaitDecoration", "awaitDispatch"}
                /\ (stack = <<>> \/ stack[1].pc = "awaitDispatch")
                       => placesOf({"send"}) # {}
                /\ \A i \in placesOf({"send"}) :
                       /\ events[i].message \in emptyMessages
                       /\ placesOf({"decorate"}) = {} => events[i].message = ""
                       /\ events[i].mediaUrl = request.params.media
           ELSE /\ stack = <<>>
                /\ outcome.kind = "thrown"
                /\ outcome.error = "message required"
                /\ placesOf(Dispatchers \cup {"decorate"}) = {}

\* a dry run of a send with a media hint and no message was handed to the send
\* collaborator with the empty message and has returned
C14_Witness ==
    /\ handlerEntered("send")
    /\ noMessage(request)
    /\ mediaHinted(request)
    /\ request.dryRun = JsTrue
    /\ outcome.kind = "send"
    /\ \E i \in placesOf({"send"}) : events[i].message = "" /\ events[i].dryRun

\* C15: a run never changes the parameters the caller passed: at every point of every
\* run (of any action, broadcast and its sends included, ended or not, failed or not)
\* the caller's object holds the keys and values it held at the call; the mapping of
\* target, the parsing of buttons, the resolved destinations, the reply directives and
\* the decoration go to the run's own copy.
C15_CallerParamsUnchanged ==
    request # NoInput => callerParams = request.params

\* a send is about to be dispatched: its working copy holds the mapped and resolved
\* destination, the reply id of the directive and the decorated message, none of which
\* the caller's object holds
C15_Witness ==
    /\ waitingAt("awaitDispatch")
    /\ Len(stack) = 1
    /\ stack[1].own
    /\ request.params.to = Undefined
    /\ stack[1].params.to = "222222222"
    /\ request.params.replyTo = Undefined
    /\ stack[1].params.replyTo = "7"
    /\ stack[1].params.message = "[from dev] hi"
    /\ callerParams = request.params

----------------------------------------------------------------------------
(* Properties of the action target table *)

TargetModes == {"to", "channelId", "none"}

\* the names the table has an entry for
tableNames == {TargetModeEntries[i][1] : i \in 1..Len(TargetModeEntries)}

\* the modes the table's entries give the action
modesOf(action) ==
    {TargetModeEntries[i][2] : i \in {j \in 1..Len(TargetModeEntries) :
                                          TargetModeEntries[j][1] = action}}

\* the action has one entry, with one of the three modes, and requires a target exactly
\* when that mode is not "none"
singleMode(action) ==
    /\ Cardinality({i \in 1..Len(TargetModeEntries) : TargetModeEntries[i][1] = action}) = 1
    /\ \E mode \in TargetModes :
          /\ modesOf(action) = {mode}
          /\ MESSAGE_ACTION_TARGET_MODE(action) = mode
          /\ actionRequiresTarget(action) <=> mode # "none"

\* C16: the action target table gives every action name exactly one target mode, one of
\* to, channelId and none, and actionRequiresTarget(action) is true exactly when that
\* mode is not none; it is false for broadcast. This holds of every name in the table
\* and of the action of every request that is run.
C16_TargetTableTotalSingleValued ==
    /\ \A action \in tableNames : singleMode(action)
    /\ ~actionRequiresTarget("broadcast")
    /\ request # NoInput => request.action \in tableNames /\ singleMode(request.action)

\* a run of an action whose mode is channelId, which requires a target, has gone on to
\* resolve one
C16_Witness ==
    /\ request.action = "channel-info"
    /\ MESSAGE_ACTION_TARGET_MODE(request.action) = "channelId"
    /\ actionRequiresTarget(request.action)
    /\ placesOf({"resolveTarget"}) # {}

----------------------------------------------------------------------------
(* Properties of the channel of a run *)

\* the run has got as far as resolving its channel: it is not a broadcast, its buttons
\* parsed and it has a target if its action requires one
channelWanted(input) ==
    /\ pastValidation(input)
    /\ actionRequiresTarget(input.action)
          => givenAfterMapping(input, "to") \/ givenAfterMapping(input, "channelId")

noChannelHint(input) == readStringParam(input.params.channel) = Undefined

\* C17: a run of an action other than broadcast that has no channel hint runs on the
\* single configured channel when exactly one channel is configured: the target
\* resolver, the policy check, the dispatchers and the result all get that channel. When
\* more than one channel is configured it fails with "Channel is required", and neither
\* the target resolver nor a dispatcher is called.
C17_ChannelDefaultsToSingleConfigured ==
    (channelWanted(request) /\ noChannelHint(request))
        => /\ Len(request.cfg.configured) = 1
                => /\ \A i \in 1..Len(events) :
                          events[i].call \notin {"denied", "handled", "unhandled"}
                              => events[i].channel = request.cfg.configured[1]
                   /\ \A i \in 1..Len(stack) : stack[i].channel = request.cfg.configured[1]
                   /\ outcome.kind \notin {"none", "thrown"}
                          => outcome.channel = request.cfg.configured[1]
                   /\ outcome.kind = "thrown" => outcome.error # "Channel is required"
           /\ Len(request.cfg.configured) > 1
                => /\ stack = <<>>
                   /\ outcome.kind = "thrown"
                   /\ outcome.error = "Channel is required"
                   /\ placesOf(Dispatchers \cup {"resolveTarget", "policy", "decorate"}) = {}

\* a react with a target and no channel hint has failed under a configuration of two
\* channels
C17_Witness ==
    /\ request.action = "react"
    /\ givenAfterMapping(request, "to")
    /\ noChannelHint(request)
    /\ Len(request.cfg.configured) = 2
    /\ outcome.kind = "thrown"
    /\ outcome.error = "Channel is required"
    /\ placesOf({"selectChannel"}) # {}

----------------------------------------------------------------------------
(* Properties of lookupDirectoryDisplay *)

\* the keys of the live source
liveKeys == {key \in CacheKeys : endsWith(key, ":live")}

\* the step is one of the call of lookupDirectoryDisplay in slot p: the call begins, or
\* the listing it awaits returns or rejects
lookupSteps(p) == tasks'[p] # tasks[p] /\ tasks'[p].op = "lookup"

\* C18: a call of lookupDirectoryDisplay never calls the live variant of a directory
\* listing and never writes a cache key of the live source, whatever the cache holds
\* and whatever the directories list (nothing at all included): no step of the call
\* leaves it waiting for a live listing or with a live fetch made, and the live keys the
\* cache holds after the step are keys it held before, with the entry they had.
C18_LookupNeverLive ==
    [][\A p \in Tasks :
          lookupSteps(p)
              => /\ tasks'[p].pc # "awaitLive"
                 /\ tasks'[p].liveFetches = 0
                 /\ \A key \in DOMAIN cache' :
                       endsWith(key, ":live")
                           => key \in DOMAIN cache /\ cache'[key] = cache[key]]_vars

\* a lookup found the snapshot empty while the live listing has entries: it made its one
\* fetch, stored the empty listing under the cache key and returned no label
C18_Witness ==
    \E p \in Tasks :
        /\ tasks[p].op = "lookup"
        /\ tasks[p].pc = "done"
        /\ tasks[p].channel = "discord"
        /\ directory = WorldLagging
        /\ tasks[p].fetches = 1
        /\ tasks[p].liveFetches = 0
        /\ tasks[p].entries = <<>>
        /\ tasks[p].result.display = Undefined
        /\ buildDirectoryCacheKey("discord", tasks[p].accountId, "group", "cache")
              \in DOMAIN cache
        /\ buildDirectoryCacheKey("discord", tasks[p].accountId, "group", "live")
              \notin DOMAIN cache

----------------------------------------------------------------------------
(* Properties of the resolution of channelId *)

\* stored is the destination `to` without a leading "channel:" or "group:", in whatever
\* case the prefix is written
storedWithoutPrefix(stored, to) ==
    IF \E prefix \in {"channel:", "group:"} : startsWith(toLowerCase(to), prefix)
    THEN /\ endsWith(to, stored)
         /\ toLowerCase(to) \in {"channel:" \o toLowerCase(stored),
                                 "group:" \o toLowerCase(stored)}
    ELSE stored = to

\* the run's call of the resolver for channelId has returned a destination
channelIdWasResolved ==
    /\ request # NoInput
    /\ request.action # "broadcast"
    /\ givenAfterMapping(request, "channelId")
    /\ placesOf({"resolveTarget"}) # {}
    /\ tasks[RunTask].pc = "done"
    /\ tasks[RunTask].result.ok

----------------------------------------------------------------------------
(* Properties of the plugin actions *)

\* the run is a dry run: the flag of the request, or else its dryRun parameter
isDryRun(input) ==
    (IF input.dryRun # Undefined THEN input.dryRun
     ELSE readBooleanParam(input.params.dryRun)) = JsTrue

\* the handler of an action other than send, poll and broadcast has run
pluginHandlerEntered ==
    /\ request # NoInput
    /\ request.action \notin {"send", "poll", "broadcast"}
    /\ handlerEntered(request.action)

\* C20: a run of an action other than send, poll and broadcast that has come to its
\* handler returns, when it is a dry run, a synthesized success of provenance "dry-run"
\* without calling the plugin-action dispatcher; when it is not a dry run it calls the
\* dispatcher exactly once, fails with "Message action <action> not supported for
\* channel <channel>." when the dispatcher reports the action unhandled and returns a
\* result of provenance "plugin" when the dispatcher handled it.
C20_PluginDispatchUnlessDryRun ==
    pluginHandlerEntered
        => IF isDryRun(request)
           THEN /\ stack = <<>>
                /\ outcome.kind = "action"
                /\ outcome.action = request.action
                /\ outcome.handledBy = "dry-run"
                /\ outcome.payload = "{ok,dryRun,channel,action}"
                /\ outcome.dryRun
                /\ placesOf(Dispatchers) = {}
           ELSE /\ Cardinality(placesOf({"plugin"})) = 1
                /\ placesOf({"send", "poll"}) = {}
                /\ stack # <<>> => stack[1].pc = "awaitPlugin"
                /\ placesOf({"unhandled"}) # {}
                     => /\ outcome.kind = "thrown"
                        /\ \E i \in placesOf({"plugin"}) :
                              outcome.error =
                                  "Message action " \o request.action
                                      \o " not supported for channel "
                                      \o events[i].channel \o "."
                /\ placesOf({"handled"}) # {}
                     => /\ outcome.kind = "action"
                        /\ outcome.action = request.action
                        /\ outcome.handledBy = "plugin"
                        /\ ~outcome.dryRun

\* a dry run of search, which has no target, passed the policy check and returned the
\* synthesized result
C20_Witness ==
    /\ pluginHandlerEntered
    /\ request.action = "search"
    /\ isDryRun(request)
    /\ request.toolContext
    /\ outcome.kind = "action"
    /\ outcome.handledBy = "dry-run"
    /\ placesOf({"plugin"}) = {}

----------------------------------------------------------------------------
(* Properties of the dry-run flag *)

\* the value is true, or a text that reads "true" in any case
saysTrue(v) == v = JsTrue \/ (isString(v) /\ toLowerCase(trim(v)) = "true")

\* the flag of the request when it is set, else what the dryRun parameter says
flagOf(input) ==
    IF input.dryRun \in {JsTrue, JsFalse} THEN input.dryRun = JsTrue
    ELSE saysTrue(input.params.dryRun)

\* C21: a run of an action other than broadcast works with the dry-run flag of its
\* request whenever that flag is set, true or false, and only when it is unset with the
\* boolean reading of its dryRun parameter (true for true and for the text "true" in any
\* case, false otherwise): every waiting call of the runner holds that flag, every
\* dispatcher is handed it and the result carries it, so a flag of false on the request
\* overrides a dryRun parameter of true.
C21_DryRunFlagBeforeParameter ==
    /\ \A i \in 1..Len(stack) :
          stack[i].input.action # "broadcast"
              => stack[i].dryRun = flagOf(stack[i].input)
    /\ \A i \in placesOf(Dispatchers) : events[i].dryRun = flagOf(request)
    /\ outcome.kind \in {"send", "poll", "action"} => outcome.dryRun = flagOf(request)

\* a search whose request says dryRun false and whose parameters say dryRun true went to
\* the dispatcher as a live run and returned its result
C21_Witness ==
    /\ request.action = "search"
    /\ request.dryRun = JsFalse
    /\ request.params.dryRun = JsTrue
    /\ \E i \in placesOf({"plugin"}) : ~events[i].dryRun
    /\ outcome.kind = "action"
    /\ outcome.handledBy = "plugin"
    /\ ~outcome.dryRun

\* C22: the result of a broadcast has provenance "dry-run" when the broadcast request
\* was a dry run, by the rule of the other actions (the flag of the request when it is
\* set, else its dryRun parameter), and provenance "core" otherwise.
C22_BroadcastProvenanceFollowsDryRun ==
    (request.action = "broadcast" /\ outcome.kind = "broadcast")
        => outcome.handledBy = (IF flagOf(request) THEN "dry-run" ELSE "core")

\* a broadcast whose dryRun parameter is true, with no flag on the request, made each of
\* its sends as a dry run and returned a result of provenance "core"
C22_Witness ==
    /\ request.action = "broadcast"
    /\ request.dryRun = Undefined
    /\ request.params.dryRun = JsTrue
    /\ outcome.kind = "broadcast"
    /\ outcome.handledBy = "core"
    /\ ~outcome.dryRun
    /\ placesOf({"send"}) # {}
    /\ \A i \in placesOf({"send"}) : events[i].dryRun

----------------------------------------------------------------------------
(* Properties of the cache key *)

\* C23: buildDirectoryCacheKey gives a missing account id (null or undefined) and an
\* empty account id ("") the same key, with "default" in the place of the account, so
\* that both address the same snapshot: what is stored for the one is there for the
\* other.
C23_MissingAndEmptyAccountShareKey ==
    \A channel \in CacheChannels, kind \in DirectoryKinds, source \in Sources :
        LET missing == buildDirectoryCacheKey(channel, Undefined, kind, source)
            null == buildDirectoryCacheKey(channel, NullRef, kind, source)
            empty == buildDirectoryCacheKey(channel, "", kind, source)
            named == channel \o ":default:" \o kind \o ":" \o source
        IN /\ empty \in DOMAIN cache
                => /\ empty = named
                   /\ missing \in DOMAIN cache
                   /\ cache[missing] = cache[empty]
           /\ missing \in DOMAIN cache
                => /\ missing = named
                   /\ null = named
                   /\ empty \in DOMAIN cache
                   /\ cache[empty] = cache[missing]

\* a snapshot was stored under the key of the empty account id of discord, and the key of
\* the missing account id, which is the key of null too and names "default", holds none
C23_Witness ==
    /\ lastOp.op = "set"
    /\ lastOp.key = buildDirectoryCacheKey("discord", "", "group", "cache")
    /\ lastOp.key = "discord::group:cache"
    /\ lastOp.key \in DOMAIN cache
    /\ buildDirectoryCacheKey("discord", Undefined, "group", "cache")
          = "discord:default:group:cache"
    /\ buildDirectoryCacheKey("discord", NullRef, "group", "cache")
          = "discord:default:group:cache"
    /\ "discord:default:group:cache" \notin DOMAIN cache

----------------------------------------------------------------------------
(* Properties of a failing directory *)

\* the step is the rejection of the listing that the resolve in slot p awaits
listingRejects(p) ==
    /\ tasks[p].op = "resolve"
    /\ tasks[p].pc \in {"awaitCache", "awaitLive"}
    /\ tasks'[p].pc = "done"
    /\ tasks'[p].result.thrown

keyOf(t) == buildDirectoryCacheKey(t.channel, t.accountId, t.dirKind, "cache")

\* the rejection reaches the caller as it is, and the cache stays as it was, with no
\* entry under the key of the call
rejectionPassesThrough ==
    \A p \in Tasks :
        listingRejects(p)
            => /\ ~tasks'[p].result.ok
               /\ tasks'[p].result.error = directoryError
               /\ tasks'[p].result.error
                     # unknownTargetError(tasks[p].raw, tasks[p].channel)
               /\ cache' = cache
               /\ lastConfigRef' = lastConfigRef
               /\ keyOf(tasks[p]) \notin DOMAIN cache'

\* the call that reads the cache right after a resolve whose listing was rejected, for
\* the same key and configuration, misses and fetches
fetchesAgainAfterRejection ==
    \A p, q \in Tasks :
        (/\ tasks[p].op = "resolve"
         /\ tasks[p].pc = "done"
         /\ tasks[p].result.thrown
         /\ tasks[q].seq = tasks[p].seq + 1
         /\ tasks[q].cacheReads = 1
         /\ tasks[q].cfg = tasks[p].cfg
         /\ keyOf(tasks[q]) = keyOf(tasks[p]))
            => /\ ~tasks[q].hit
               /\ tasks[q].pc = "done" => tasks[q].fetches = 1

\* C24: when the directory collaborator throws during a fetch that resolve makes, the
\* failure reaches the caller of resolve as that failure, not as "unknown target", and
\* the directory cache is left as it was: no entry, empty or not, is stored for the key,
\* so that the next resolution fetches again.
C24_DirectoryFailurePropagates ==
    /\ []fetchesAgainAfterRejection
    /\ [][rejectionPassesThrough]_vars

\* a resolve failed on the rejection of its live listing, and the next resolve of the
\* same key has fetched again
C24_Witness ==
    \E p, q \in Tasks :
        /\ tasks[p].op = "resolve"
        /\ tasks[p].pc = "done"
        /\ tasks[p].result.thrown
        /\ tasks[p].liveFetches = 1
        /\ tasks[q].op = "resolve"
        /\ tasks[q].seq = tasks[p].seq + 1
        /\ tasks[q].cfg = tasks[p].cfg
        /\ keyOf(tasks[q]) = keyOf(tasks[p])
        /\ tasks[q].pc = "done"
        /\ ~tasks[q].hit
        /\ tasks[q].fetches = 1
        /\ tasks[q].result.ok

----------------------------------------------------------------------------
(* Properties of the order of the steps of a run *)

\* the kind of result the handler of an action returns, and the dispatcher it calls
familyOf(action) ==
    IF action = "send" THEN "send" ELSE IF action = "poll" THEN "poll" ELSE "action"

dispatcherOf(action) ==
    IF action = "send" THEN "send" ELSE IF action = "poll" THEN "poll" ELSE "plugin"

\* the run of an action other than broadcast has returned a result
succeeded ==
    /\ request # NoInput
    /\ request.action # "broadcast"
    /\ stack = <<>>
    /\ outcome.kind \notin {"none", "thrown"}

\* the log of a run that succeeded: one channel selection first, then the target
\* resolutions, then one policy check, then the handler's calls, of which at most one is
\* a dispatch, by the dispatcher of the action
stepsInOrder ==
    LET selections == placesOf({"selectChannel"})
        resolutions == placesOf({"resolveTarget"})
        checks == placesOf({"policy"})
        handling == placesOf(Dispatchers \cup {"decorate", "handled", "unhandled"})
        dispatches == placesOf(Dispatchers)
    IN /\ ~malformedButtons(request)
       /\ actionRequiresTarget(request.action)
             => givenAfterMapping(request, "to") \/ givenAfterMapping(request, "channelId")
       /\ selections = {1}
       /\ Cardinality(checks) = 1
       /\ \A r \in resolutions : \A c \in checks : 1 < r /\ r < c
       /\ givenAfterMapping(request, "to") \/ givenAfterMapping(request, "channelId")
             => resolutions # {}
       /\ \A h \in handling : \A c \in checks : c < h
       /\ \A i \in 1..Len(events) : events[i].call # "denied"
       /\ \A d \in dispatches : events[d].call = dispatcherOf(request.action)
       /\ Cardinality(dispatches)
             = (IF outcome.handledBy = "dry-run" /\ outcome.kind = "action" THEN 0 ELSE 1)
       /\ outcome.kind = familyOf(request.action)

\* a run of broadcast makes none of the runner's own steps: every channel selection,
\* target resolution and policy check in its log is one of a send it made for a pair, or
\* the selection handleBroadcastAction makes for the channel hint; it ends with the
\* result or the error of handleBroadcastAction
broadcastDelegated ==
    /\ \A i \in placesOf({"selectChannel", "resolveTarget", "policy"}) :
          \/ events[i].action = "send"
          \/ events[i].call = "selectChannel" /\ events[i].action = Undefined
    /\ \A i \in 1..Len(stack) :
          stack[i].pc \in {"awaitPairResolve", "awaitPairSend"} <=> i = 1
    /\ outcome.kind \in {"none", "thrown", "broadcast"}
    /\ outcome.kind = "thrown"
          => \/ malformedButtons(request)
             \/ preconditionFails(request)
             \/ unresolvableHint(request)
    /\ outcome.kind = "broadcast" => Len(outcome.results) = Len(attempts)

\* C25: every run of an action other than broadcast that succeeds has gone through
\* validation, the resolution of channel and account, the resolution of the target, the
\* policy check and the dispatch in that order, and through exactly one handler, which
\* the action alone determines (send: the send handler, poll: the poll handler, any other
\* action: the plugin handler); a run of broadcast makes none of the target-required
\* check, the channel resolution, the target resolution and the policy check of the
\* runner itself and returns the result of handleBroadcastAction.
C25_StepsInFixedOrder ==
    /\ succeeded => stepsInOrder
    /\ (request # NoInput /\ request.action = "broadcast") => broadcastDelegated

\* a poll whose target the resolver took went through selection, resolution, policy
\* check, decoration and the poll dispatcher, and returned a poll result
C25_Witness ==
    /\ succeeded
    /\ request.action = "poll"
    /\ request.toolContext
    /\ outcome.kind = "poll"
    /\ \E i \in placesOf({"resolveTarget"}) : \E j \in placesOf({"policy"}) :
          \E k \in placesOf({"decorate"}) : \E l \in placesOf({"poll"}) :
              1 < i /\ i < j /\ j < k /\ k < l
    /\ placesOf({"send", "plugin"}) = {}

----------------------------------------------------------------------------
(* Properties of the order in time of the pairs of a broadcast *)

\* the number of the pair the broadcast is at, in the order of its loops
pairNumber(frame) == (frame.ci - 1) * Len(frame.rawTargets) + frame.ti

\* the pairs whose send has begun and has not ended
pendingSends == {k \in 1..Len(attempts) : attempts[k].send = "pending"}

\* C26: a broadcast works on its pairs strictly one after the other: the resolution of a
\* pair begins only when the resolution and the send of every pair before it have ended,
\* in success or in failure, and their outcomes are recorded, so that at any time at most
\* one resolution or send of a pair is under way.
C26_PairsOneAfterTheOther ==
    (request # NoInput /\ request.action = "broadcast")
        => /\ Cardinality(pendingSends) <= 1
           /\ pendingSends \subseteq {Len(attempts)}
           /\ Len(stack) <= 2
           /\ (stack # <<>> /\ stack[1].pc = "awaitPairResolve")
                 => /\ Len(stack) = 1
                    /\ pendingSends = {}
                    /\ Len(stack[1].results) = Len(attempts)
                    /\ pairNumber(stack[1]) = Len(attempts) + 1
           /\ (stack # <<>> /\ stack[1].pc = "awaitPairSend")
                 => /\ Len(stack) = 2
                    /\ pendingSends = {Len(attempts)}
                    /\ Len(stack[1].results) = Len(attempts) - 1
                    /\ pairNumber(stack[1]) = Len(attempts)
           /\ stack = <<>> => pendingSends = {}

\* the broadcast is resolving its third pair, after one pair whose send returned and one
\* whose send or resolution failed
C26_Witness ==
    /\ request.action = "broadcast"
    /\ stack # <<>>
    /\ stack[1].pc = "awaitPairResolve"
    /\ tasks[RunTask].pc \in {"awaitCache", "awaitLive"}
    /\ Len(attempts) = 2
    /\ \E k \in 1..2 : attempts[k].send = "returned"
    /\ \E k \in 1..2 : attempts[k].send \in {"none", "threw"}

----------------------------------------------------------------------------
(* Properties of the lifetime of a cache entry *)

\* the step changes no entry but the one a set has just stored, at the time of the set
onlySetStores ==
    \A key \in DOMAIN cache' :
        (key \notin DOMAIN cache \/ cache'[key] # cache[key])
            => /\ lastOp'.op = "set"
               /\ lastOp'.key = key
               /\ cache'[key].fetchedAt = now'

\* a get that finds its entry leaves the cache as it was
getKeepsEntry == (lastOp'.op = "get" /\ lastOp'.found) => cache' = cache

\* call q comes right after call p, on the same key under the same configuration, and p
\* was served from the cache
readAfterRead(p, q) ==
    /\ tasks[p].pc = "done"
    /\ tasks[p].hit
    /\ tasks[q].seq = tasks[p].seq + 1
    /\ tasks[q].cacheReads = 1
    /\ tasks[q].cfg = tasks[p].cfg
    /\ keyOf(tasks[q]) = keyOf(tasks[p])

\* the age the later read sees counts from the store, through the earlier read
ageCountsFromStore ==
    \A p, q \in Tasks :
        readAfterRead(p, q)
            => /\ tasks[q].hadEntry
               /\ tasks[q].age = tasks[p].age + (tasks[q].startedAt - tasks[p].startedAt)
               /\ tasks[q].hit <=> tasks[q].age <= CACHE_TTL_MS

\* C27: the lifetime of a cache entry counts from the time it was stored, not from the
\* last time it was read: a get that finds the entry changes neither its value nor its
\* fetch time, so after any number of reads the entry still expires at fetch time plus
\* the time to live; only a set gives an entry a new fetch time.
C27_LifetimeFromStore ==
    /\ []ageCountsFromStore
    /\ [][getKeepsEntry /\ onlySetStores]_vars

\* an entry that was read 29 minutes after it was stored was found expired 29 minutes
\* after that read
C27_Witness ==
    \E p, q \in Tasks :
        /\ readAfterRead(p, q)
        /\ tasks[p].age = 29 * 60 * 1000
        /\ tasks[q].startedAt - tasks[p].startedAt = 29 * 60 * 1000
        /\ tasks[q].pc = "done"
        /\ ~tasks[q].hit
        /\ tasks[q].fetches = 1

----------------------------------------------------------------------------
(* Properties of selective invalidation *)

\* the account ids whose keys the direct calls use
KeyAccountIds == AccountIds \cup {"", "work:eu"}

\* the account a key is built for
accountOf(accountId) == IF accountId \in {Undefined, NullRef} THEN "default" ELSE accountId

\* the reset names an account
accountGiven(accountId) == accountId \notin {Undefined, NullRef, ""}

\* C28: selective invalidation leaves everything outside its scope as it was:
\* resetDirectoryCache for a channel removes no entry of another channel, and
\* resetDirectoryCache for a channel and an account removes no entry of that channel that
\* belongs to another account id, the "default" account included.
C28_ResetLeavesOtherScopes ==
    (lastOp.op = "reset" /\ lastOp.channel \in CacheChannels)
        => \A channel \in CacheChannels, a \in KeyAccountIds,
              kind \in DirectoryKinds, source \in Sources :
              LET key == buildDirectoryCacheKey(channel, a, kind, source)
                  outside == \/ channel # lastOp.channel
                             \/ /\ accountGiven(lastOp.accountId)
                                /\ accountOf(a) # accountOf(lastOp.accountId)
              IN (outside /\ key \in DOMAIN lastOp.pre)
                    => key \in DOMAIN cache /\ cache[key] = lastOp.pre[key]

\* a reset of the account "work" of discord removed the entry of the account "work:eu"
C28_Witness ==
    /\ lastOp.op = "reset"
    /\ lastOp.channel = "discord"
    /\ lastOp.accountId = "work"
    /\ buildDirectoryCacheKey("discord", "work:eu", "group", "cache") \in DOMAIN lastOp.pre
    /\ buildDirectoryCacheKey("discord", "work:eu", "group", "cache") \notin DOMAIN cache

\* the entries a reset leaves alone when no account id has a colon in it: those of other
\* channels, and those of the other accounts of the channel when the reset names one
resetLeavesPlainScopes ==
    (lastOp.op = "reset" /\ lastOp.channel \in CacheChannels)
        => \A channel \in CacheChannels, a \in AccountIds \cup {""},
              kind \in DirectoryKinds, source \in Sources :
              LET key == buildDirectoryCacheKey(channel, a, kind, source)
                  outside == \/ channel # lastOp.channel
                             \/ /\ accountGiven(lastOp.accountId)
                                /\ accountOf(a) # accountOf(lastOp.accountId)
              IN (outside /\ key \in DOMAIN lastOp.pre)
                    => key \in DOMAIN cache /\ cache[key] = lastOp.pre[key]

----------------------------------------------------------------------------
(* Properties of the cache under overlapping calls with different configurations *)

\* what the directory of a configuration lists for the calls of ConcurrentRequests
listingsUnder(cfg, kind, source) ==
    {listingOf(cfg, kind, query, source) : query \in {"general", "bob"}}

\* every entry in the cache is a listing of the configuration last seen
entriesOfLastConfig ==
    \A req \in ConcurrentRequests, kind \in DirectoryKinds, source \in Sources :
        LET key == buildDirectoryCacheKey(req.channel, req.accountId, kind, source)
        IN key \in DOMAIN cache
              => /\ lastConfigRef # NullRef
                 /\ cache[key].value \in listingsUnder(lastConfigRef, kind, source)

\* what a call was served from the cache is a listing of its own configuration
servedFromOwnConfig ==
    \A p \in Tasks :
        (tasks[p].pc = "done" /\ tasks[p].hit)
            => tasks[p].entries \in listingsUnder(tasks[p].cfg, tasks[p].dirKind, "cache")

\* C29: however resolutions that use different configuration objects interleave on the
\* shared cache, every entry in the cache was stored under the configuration object that
\* is recorded as last seen, and a get made with one configuration object never returns
\* a value that was fetched and stored under another.
C29_NoEntryOfAnotherConfig ==
    /\ entriesOfLastConfig
    /\ servedFromOwnConfig

\* a call began under one configuration and is still waiting for its listing; a call
\* under the other configuration began after it and has stored its listing: the cache
\* holds that entry only, and the configuration last seen is that of the later call
C29_Witness ==
    /\ directory = WorldFull
    /\ \E p, q \in Tasks :
          /\ tasks[p].seq = 1
          /\ tasks[p].pc = "awaitCache"
          /\ tasks[q].seq = 2
          /\ tasks[q].pc = "done"
          /\ tasks[q].cacheWrites = 1
          /\ tasks[q].cfg # tasks[p].cfg
          /\ keyOf(tasks[q]) # keyOf(tasks[p])
          /\ lastConfigRef = tasks[q].cfg
          /\ DOMAIN cache = {keyOf(tasks[q])}
          /\ cache[keyOf(tasks[q])].value
                \notin listingsUnder(tasks[p].cfg, tasks[q].dirKind, "cache")

----------------------------------------------------------------------------
(* Properties of a reset while a resolution waits *)

\* the numbers of the calls that were resets of discord: those no resolver call has
resetCalls == {k \in 1..calls : \A r \in Tasks : tasks[r].seq # k}

\* C30: once resetDirectoryCache for a channel has returned, no later resolution for that
\* channel is answered from a directory snapshot whose fetch began before the reset, also
\* when a resolution for the channel was waiting for its directory fetch at the time of
\* the reset: a resolution that begins after a reset and is served from the cache is
\* served what a fetch begun after that reset has stored.
C30_NoSnapshotFromBeforeReset ==
    \A q \in Tasks : \A k \in resetCalls :
        (k < tasks[q].seq /\ tasks[q].hit)
            => \E r \in Tasks :
                  /\ k < tasks[r].seq
                  /\ tasks[r].seq < tasks[q].seq
                  /\ tasks[r].cacheWrites = 1
                  /\ keyOf(tasks[r]) = keyOf(tasks[q])

\* a resolution was waiting for its listing when discord was reset; it stored the listing
\* afterwards, and the resolution that began after the reset was served from it
C30_Witness ==
    \E p, q \in Tasks :
        /\ tasks[p].seq = 1
        /\ resetCalls = {2}
        /\ tasks[q].seq = 3
        /\ tasks[p].pc = "done"
        /\ tasks[p].fetches = 1
        /\ tasks[p].cacheWrites = 1
        /\ tasks[q].pc = "done"
        /\ tasks[q].hit
        /\ tasks[q].fetches = 0
        /\ tasks[q].entries = tasks[p].entries
        /\ keyOf(tasks[p]) \in DOMAIN cache

----------------------------------------------------------------------------
(* Properties of the answer to a query after another query filled the cache *)

\* what resolveMessagingTarget returns for the call when the cache holds nothing for its
\* key: the listing fetched with the call's own query, the live one when that is empty
freshAnswer(t) ==
    LET listed == listedFor(t)
    IN resolveFromEntries(t, IF Len(listed) > 0
                             THEN listed
                             ELSE listingOf(t.cfg, t.dirKind, t.query, "live"))

\* call q came right after call p on the same channel, account and kind with the same
\* configuration and another query, and was served the listing that p fetched and stored
servedAfterOtherQuery(p, q) ==
    /\ follows(p, q)
    /\ tasks[q].cfg = tasks[p].cfg
    /\ tasks[q].query # tasks[p].query
    /\ tasks[p].cacheWrites = 1
    /\ tasks[q].hit
    /\ tasks[q].pc = "done"

\* C31: with the directory and the configuration unchanged, resolving a query that is not
\* identifier-shaped gives the same outcome whether the cache is empty or was filled by an
\* earlier resolution of another query on the same channel, account and kind: the call
\* served from the earlier call's snapshot returns what a fresh fetch with its own query
\* would have returned.
C31_AnswerIndependentOfEarlierQuery ==
    \A p, q \in Tasks :
        servedAfterOtherQuery(p, q) => tasks[q].result = freshAnswer(tasks[q])

\* "dev" was resolved first and its listing, General-Dev alone, stored; "general" was then
\* served from that listing and resolved to General-Dev, although a fetch of its own
\* lists two groups and ends in "Ambiguous target"
C31_Witness ==
    \E p, q \in Tasks :
        /\ servedAfterOtherQuery(p, q)
        /\ dirFilters
        /\ tasks[p].query = "dev"
        /\ tasks[p].result.ok
        /\ tasks[q].query = "general"
        /\ tasks[q].result.ok
        /\ tasks[q].result.to = "channel:222222222"
        /\ ~freshAnswer(tasks[q]).ok
        /\ Len(freshAnswer(tasks[q]).candidates) = 2

----------------------------------------------------------------------------
(* Properties of the escalation to the live listing *)

\* the call is a resolution of an input that is not identifier-shaped and has returned
resolvedByListing(t) ==
    /\ t.op = "resolve"
    /\ t.pc = "done"
    /\ ~t.idShaped
    /\ t.cacheReads = 1
    /\ ~t.result.thrown

\* the cache-source listing the call consulted, the cached snapshot or the one it fetched,
\* had no entries
cacheListingEmpty(t) ==
    IF t.hit THEN Len(t.entries) = 0
    ELSE IF hasDirectory(t.channel) THEN Len(listedFor(t)) = 0
    ELSE TRUE

\* C32: whenever a resolution of an input that is not identifier-shaped finds no entries
\* in the cache-source listing it consults, it queries the live variant once before it
\* returns "Unknown target", whatever was done on the shared cache before, a call of
\* lookupDirectoryDisplay that stored an empty snapshot for the same channel, account and
\* kind included.
C32_EmptyListingEscalatesToLive ==
    \A p \in Tasks :
        (resolvedByListing(tasks[p]) /\ hasDirectory(tasks[p].channel)
                                     /\ cacheListingEmpty(tasks[p]))
            => tasks[p].liveFetches = 1

\* lookupDirectoryDisplay stored the empty snapshot of a directory whose live listing has
\* the group; the resolution that followed was served the empty snapshot and returned
\* "Unknown target" without a live query
C32_Witness ==
    \E p, q \in Tasks :
        /\ tasks[p].op = "lookup"
        /\ tasks[p].pc = "done"
        /\ tasks[p].cacheWrites = 1
        /\ Len(tasks[p].entries) = 0
        /\ tasks[q].seq = tasks[p].seq + 1
        /\ keyOf(tasks[q]) = keyOf(tasks[p])
        /\ tasks[q].cfg = tasks[p].cfg
        /\ resolvedByListing(tasks[q])
        /\ tasks[q].hit
        /\ Len(tasks[q].entries) = 0
        /\ tasks[q].liveFetches = 0
        /\ tasks[q].result.error = unknownTargetError(tasks[q].raw, tasks[q].channel)
        /\ Len(listingOf(tasks[q].cfg, tasks[q].dirKind, tasks[q].query, "live")) > 0

----------------------------------------------------------------------------
(* Properties of the destination of a pair of a broadcast *)

\* the send of the pair in progress has resolved its destination again and waits for
\* executeSendAction
pairSendDispatched ==
    /\ Len(stack) = 2
    /\ stack[2].pc = "awaitDispatch"
    /\ attempts # <<>>

\* the dispatch of the send of the pair in progress: the last send the run has made
lastSend ==
    events[CHOOSE i \in placesOf({"send"}) : \A j \in placesOf({"send"}) : j <= i]

----------------------------------------------------------------------------
(* Properties of the dry-run flag a broadcast reports *)

\* C34: the dryRun flag the result of a broadcast reports is the dry-run flag each of its
\* recursive sends was made with: when the sends of the pairs run as dry runs (the dryRun
\* parameter true and the flag of the request unset, for one) the result says dryRun true
\* with provenance "dry-run", and when they run live it says dryRun false.
C34_BroadcastReportsFlagOfItsSends ==
    (request.action = "broadcast" /\ outcome.kind = "broadcast")
        => \A i \in placesOf({"send"}) :
              /\ outcome.dryRun = events[i].dryRun
              /\ events[i].dryRun => outcome.handledBy = "dry-run"

\* both pairs of a broadcast with the dryRun parameter true and no flag on the request
\* were sent as dry runs and succeeded; the result of the broadcast reports dryRun false
C34_Witness ==
    /\ request.action = "broadcast"
    /\ request.dryRun = Undefined
    /\ request.params.dryRun = JsTrue
    /\ outcome.kind = "broadcast"
    /\ Len(outcome.results) = 2
    /\ \A k \in 1..2 : outcome.results[k].ok
    /\ \E i, j \in placesOf({"send"}) : i < j /\ events[i].dryRun /\ events[j].dryRun
    /\ ~outcome.dryRun

----------------------------------------------------------------------------
(* Properties of a channelId written as a user *)

\* the value is written as a user: a leading "@", a mention token or a "user:" prefix
userShaped(value) ==
    LET trimmed == trim(value)
    IN \/ startsWith(trimmed, "@")
       \/ startsWith(trimmed, "<@")
       \/ startsWith(toLowerCase(trimmed), "user:")

\* the channelId the run has once `target` is mapped
channelIdOf(input) == applyTargetToParams(input.action, input.params).channelId

\* the run is of an action other than broadcast and its channelId is written as a user
userChannelIdRun ==
    /\ request # NoInput
    /\ request.action # "broadcast"
    /\ givenAfterMapping(request, "channelId")
    /\ userShaped(channelIdOf(request))

\* C35: a run whose channelId is written as a user (a leading "@", a mention token or a
\* "user:" prefix) never comes to a dispatch with that value as channelId: the kind
\* detected for the channelId follows the syntax of the input, so that the rejection of a
\* user target in resolveActionTarget is reached: once the resolver has returned a
\* destination for such a channelId, the run fails with "Channel id ... resolved to a user
\* target." and neither the policy check nor a dispatcher is called.
C35_UserShapedChannelIdRejected ==
    userChannelIdRun
        => /\ placesOf(Dispatchers) = {}
           /\ \A i \in placesOf({"policy"}) : ~userShaped(events[i].channelId)
           /\ (channelIdWasResolved /\ ~waitingAt("awaitChannelId"))
                => /\ outcome.kind = "thrown"
                   /\ outcome.error = userTargetError(trim(channelIdOf(request)))

\* the channelId "user:444444444" was resolved as an identifier with the kind group, kept
\* as it is, passed the policy check and was dispatched to the plugin, which handled it
C35_Witness ==
    /\ userChannelIdRun
    /\ request.action = "channel-info"
    /\ channelIdOf(request) = "user:444444444"
    /\ tasks[RunTask].result.ok
    /\ tasks[RunTask].result.kind = "group"
    /\ tasks[RunTask].result.to = "user:444444444"
    /\ \E i \in placesOf({"policy"}) : events[i].channelId = "user:444444444"
    /\ placesOf({"plugin"}) # {}
    /\ outcome.kind = "action"
    /\ outcome.handledBy = "plugin"

----------------------------------------------------------------------------
(* Properties of the termination of a broadcast *)

\* the run is a broadcast
runIsBroadcast == request # NoInput /\ request.action = "broadcast"

\* the number of pairs of the broadcast, |C| x |T|
pairCount == Len(channelsOf(request)) * Len(targetsOf(request))

\* a call of runMessageAction made by the broadcast is a send that has the parameters of
\* the broadcast, `targets` among them, and nothing is called below it
nestedRunsAreSends ==
    /\ Len(stack) <= 2
    /\ \A i \in 2..Len(stack) :
          /\ stack[i].input.action = "send"
          /\ stack[i].input.params.targets = request.params.targets
          /\ stack[i].pc \notin {"awaitPairResolve", "awaitPairSend"}
    /\ \A i \in placesOf(Dispatchers) : events[i].action = "send"

\* the k-th pair tried is the k-th pair of C x T: no pair is tried twice
eachPairOnce ==
    /\ Len(attempts) <= pairCount
    /\ \A k \in 1..Len(attempts) :
          /\ attempts[k].channel = pairChannel(request, k)
          /\ attempts[k].target = pairTarget(request, k)

\* the broadcast has ended: it threw before its loop, or it returned after |C| x |T|
\* iterations with one outcome for each
broadcastEnded ==
    /\ stack = <<>>
    /\ outcome.kind \in {"broadcast", "thrown"}
    /\ outcome.kind = "thrown" => attempts = <<>>
    /\ outcome.kind = "broadcast" => /\ Len(attempts) = pairCount
                                     /\ Len(outcome.results) = pairCount

\* C36: provided every call of a directory or dispatch collaborator returns or throws, a
\* broadcast ends after exactly |C| x |T| iterations of its loop: each call of
\* runMessageAction it makes has the action send and never broadcast, although the
\* parameters of the broadcast, `targets` among them, are passed along, so that the calls
\* are nested at most two deep and no pair is tried more than once.
C36_BroadcastTerminates ==
    /\ [](runIsBroadcast => (nestedRunsAreSends /\ eachPairOnce))
    /\ (runIsBroadcast ~> broadcastEnded)

\* the send of the third of four pairs waits for its dispatch, two deep, as a send that
\* has the targets of the broadcast in its parameters
C36_Witness ==
    /\ runIsBroadcast
    /\ pairCount = 4
    /\ Len(attempts) = 3
    /\ Len(stack) = 2
    /\ stack[1].pc = "awaitPairSend"
    /\ stack[2].pc = "awaitDispatch"
    /\ stack[2].input.action = "send"
    /\ stack[2].input.params.targets = request.params.targets
    /\ Len(stack[2].input.params.targets.values) = 2

====
